---- MODULE Spec2Model ----
(***************************************************************************)
(* uzpay: payment-webhook processing for three providers (Payme = Provider *)
(* A, Click = Provider B, Paynet = Provider C) over one transaction record *)
(* kept in a pluggable store.  Every handler invocation is a sequence of   *)
(* steps separated by its awaits (store reads, callbacks, store writes);   *)
(* any await may throw.                                                    *)
(***************************************************************************)
EXTENDS Integers, FiniteSets, Sequences, TLC

VARIABLES
  store,        \* the store: transaction id -> Transaction (NoTx when absent)
  now,          \* Date.now()
  pc,           \* per invocation slot: the await it is suspended at
  req,          \* per slot: the request being (or last) handled
  loc,          \* per slot: the handler's locals (transaction read, Date.now())
  resp,         \* per slot: the last result returned (or Thrown)
  cbs,          \* per slot: what the invocation has done so far (callbacks
                \* returned, store writes applied, exceptions caught)
  completedOk,  \* per transaction: successful returns of onPaymentCompleted
  cancelledOk,  \* per transaction: successful returns of onPaymentCancelled
  redelivery,   \* per slot: the request repeats the slot's previous request
  failures,     \* exceptions thrown by the store and the callbacks so far
                \* (counted in runs whose collaborators recover)
  run           \* the deployment: slots in use, store capacity, result log,
                \* and the values its clients and providers send

vars == <<store, now, pc, req, loc, resp, cbs, completedOk, cancelledOk, redelivery,
          failures, run>>

(* ---------------------------------------------------------------------- *)
(* Bounds                                                                  *)
(* ---------------------------------------------------------------------- *)
MaxTx == 2
ConcTx == 1
SeqTx == 1
MaxProcs == 2
MaxTicks == 2
MaxCalls == 2
MaxFailures == 1

(* ---------------------------------------------------------------------- *)
(* Values                                                                  *)
(* ---------------------------------------------------------------------- *)
Null == 0
TIYIN_PER_UZS == 100
TWELVE_HOURS_MS == 12 * 60 * 60 * 1000
T0 == TWELVE_HOURS_MS

Procs == 1..MaxProcs
TxIds == 1..MaxTx
Providers == {"payme", "click", "paynet"}
AmountsUzs == {1, 2}
ShortIds == {10000, 10001}
PaymeIds == {201, 202}
ClickIds == {301}
PaynetIds == {401}
Reasons == {Null, 3}

PAYME_CREATED == 1
PAYME_COMPLETED == 2
PAYME_CANCELLED_BEFORE_COMPLETE == -1
PAYME_CANCELLED_AFTER_COMPLETE == -2

PAYME_INTERNAL_ERROR == -32400
PAYME_INSUFFICIENT_PRIVILEGES == -32504
PAYME_INVALID_AMOUNT == -31001
PAYME_TRANSACTION_NOT_FOUND == -31003
PAYME_CANNOT_PERFORM_OPERATION == -31008
PAYME_ORDER_NOT_FOUND == -31050
PAYME_ORDER_ALREADY_PAID == -31051
PAYME_INVALID_RPC_REQUEST == -32600
PAYME_METHOD_NOT_FOUND == -32601

PAYNET_SUCCESS == 1
PAYNET_CANCELLED == 2
PAYNET_NOT_FOUND == 3
PAYNET_ACCESS_DENIED == 601
PAYNET_INTERNAL_ERROR == -32603
PAYNET_MISSING_PARAMS == -32602
PAYNET_TRANSACTION_EXISTS == 201
PAYNET_TRANSACTION_CANCELLED == 202
PAYNET_TRANSACTION_NOT_FOUND == 203
PAYNET_CLIENT_NOT_FOUND == 302
PAYNET_INVALID_AMOUNT == 413
PAYNET_INVALID_DATE_FORMAT == 414
PAYNET_METHOD_NOT_FOUND == -32601

Truthy(x) == x # Null

(* Math.round(uzs * TIYIN_PER_UZS), on whole amounts of UZS                *)
uzsToTiyin(uzs) == uzs * TIYIN_PER_UZS

(* ---------------------------------------------------------------------- *)
(* Transaction record and the store (reference in-memory store)            *)
(* ---------------------------------------------------------------------- *)
NoTx == [id |-> Null, userId |-> "", planId |-> "", provider |-> "",
         amount |-> 0, status |-> "NONE", providerTransactionId |-> Null,
         providerCreateTime |-> Null, providerPerformTime |-> Null,
         providerCancelTime |-> Null, cancelReason |-> Null,
         shortId |-> Null, updatedAt |-> Null]

Transaction(id, userId, planId, provider, amount, shortId, t) ==
  [id |-> id, userId |-> userId, planId |-> planId, provider |-> provider,
   amount |-> amount, status |-> "PENDING", providerTransactionId |-> Null,
   providerCreateTime |-> Null, providerPerformTime |-> Null,
   providerCancelTime |-> Null, cancelReason |-> Null,
   shortId |-> shortId, updatedAt |-> t]

Exists(i) == store[i] # NoTx

FirstMatch(S) == IF S = {} THEN NoTx
                 ELSE store[CHOOSE i \in S : \A j \in S : i <= j]

getTransactionById(id) ==
  IF id \in TxIds /\ Exists(id) THEN store[id] ELSE NoTx

getTransactionByShortId(shortId) ==
  FirstMatch({i \in TxIds : Exists(i) /\ store[i].shortId = shortId})

getTransactionByProviderId(provider, providerTransactionId) ==
  FirstMatch({i \in TxIds : Exists(i) /\ store[i].provider = provider
                /\ store[i].providerTransactionId = providerTransactionId})

(* A lookup that takes a PREPARED transaction for the pending one.         *)
findPendingTransaction_Mutant(userId, planId) ==
  FirstMatch({i \in TxIds : Exists(i) /\ store[i].userId = userId
                /\ store[i].planId = planId /\ store[i].status = "PREPARED"})

findPendingTransaction(userId, planId) ==
  FirstMatch({i \in TxIds : Exists(i) /\ store[i].userId = userId
                /\ store[i].planId = planId /\ store[i].status = "PENDING"})

updateTransaction(id, fields) ==
  IF id \in TxIds /\ Exists(id)
  THEN [store EXCEPT ![id] =
          [k \in DOMAIN store[id] |->
             IF k = "updatedAt" THEN now
             ELSE IF k \in DOMAIN fields THEN fields[k] ELSE store[id][k]]]
  ELSE store

NextFreeId == CHOOSE i \in TxIds : ~Exists(i) /\ \A j \in TxIds : j < i => Exists(j)

StoreFull == \A i \in 1..run.cap : Exists(i)

createTransaction(userId, planId, provider, amount, shortId) ==
  [store EXCEPT ![NextFreeId] =
     Transaction(NextFreeId, userId, planId, provider, amount, shortId, now)]

(* ---------------------------------------------------------------------- *)
(* Requests, results and per-invocation bookkeeping                        *)
(* ---------------------------------------------------------------------- *)
(* An Authorization header: its scheme and, for Basic, the decoded         *)
(* credential as the segments between its colons.  NoHeader: none sent.    *)
Header(scheme, parts) == [scheme |-> scheme, parts |-> parts]

NoHeader == Header("", <<>>)

(* No sign_string: the digest of nothing.                                  *)
NoSign == [md5 |-> <<>>]

BasicAuth(user, password) == Header("Basic", <<user, password>>)

NoReq == [kind |-> "none", method |-> "", id |-> Null, time |-> Null,
          amount |-> 0, order |-> Null, reason |-> Null, action |-> 0,
          prepareId |-> Null, error |-> 0, rpc |-> 0, auth |-> NoHeader,
          sign |-> NoSign, from |-> Null, to |-> Null, password |-> Null]

(* A result: url is the amount a payment URL carries, thrown the message   *)
(* of the error when the call threw, result what a query method reports.   *)
NoResp ==
  [http |-> 0, code |-> 0, state |-> 0, time |-> 0, tx |-> Null, rpc |-> 0,
   url |-> 0, thrown |-> <<>>, result |-> <<>>]

Resp(http, code, state, time, tx) ==
  [NoResp EXCEPT !.http = http, !.code = code, !.state = state, !.time = time,
                 !.tx = tx]

(* An exception of a collaborator leaves the call.                         *)
Thrown == [NoResp EXCEPT !.http = -1, !.thrown = <<"Error">>]

ConfigError_Mutant(provider) == [NoResp EXCEPT !.http = -1, !.thrown = <<"Error">>]

(* new Error("<Provider> config not provided")                             *)
ConfigError(provider) ==
  [NoResp EXCEPT !.http = -1, !.thrown = <<provider, "config not provided">>]

(* The fields of the transaction a handler read that it still uses after   *)
(* its next await, with the Date.now() it took.                            *)
Locals(tx, t) ==
  [id |-> tx.id, status |-> tx.status, provider |-> tx.provider,
   amount |-> tx.amount, shortId |-> tx.shortId, time |-> t]

NoLoc == Locals(NoTx, Null)

Times == {T0 + k * TWELVE_HOURS_MS : k \in 0..MaxTicks}
UserId == "u1"
PlanId == "p1"
Options == Providers

InitWith(r) ==
  /\ store = [i \in TxIds |-> NoTx]
  /\ now = T0
  /\ pc = [p \in Procs |-> "idle"]
  /\ req = [p \in Procs |-> NoReq]
  /\ loc = [p \in Procs |-> NoLoc]
  /\ resp = [p \in Procs |-> NoResp]
  /\ cbs = [p \in Procs |-> {}]
  /\ completedOk = [i \in TxIds |-> 0]
  /\ cancelledOk = [i \in TxIds |-> 0]
  /\ redelivery = [p \in Procs |-> FALSE]
  /\ failures = 0
  /\ run = r

(* Concurrent invocations on one transaction.                              *)
Init ==
  InitWith([procs |-> Procs, cap |-> ConcTx, log |-> FALSE,
            amounts |-> {1}, shortIds |-> {10000}, paymeIds |-> {201}, clickIds |-> {301},
            reasons |-> {3}, wide |-> FALSE, options |-> Options, live |-> FALSE, optional |-> {}])

(* One invocation at a time (each provider delivers, waits for the answer, *)
(* and redelivers); results are logged.                                    *)
InitSeq ==
  InitWith([procs |-> {1}, cap |-> SeqTx, log |-> TRUE,
            amounts |-> {1}, shortIds |-> {10000}, paymeIds |-> PaymeIds, clickIds |-> ClickIds,
            reasons |-> {3}, wide |-> FALSE, options |-> Options, live |-> FALSE, optional |-> {}])

(* Concurrent createPayment calls; results are logged.                     *)
InitCreate ==
  InitWith([procs |-> Procs, cap |-> MaxTx, log |-> TRUE,
            amounts |-> {1}, shortIds |-> ShortIds, paymeIds |-> PaymeIds, clickIds |-> ClickIds,
            reasons |-> Reasons, wide |-> FALSE, options |-> Options, live |-> FALSE, optional |-> {}])

(* Calls one after another on a store that holds two transactions.        *)
InitTwo ==
  InitWith([procs |-> {1}, cap |-> MaxTx, log |-> TRUE,
            amounts |-> {1}, shortIds |-> ShortIds, paymeIds |-> {201}, clickIds |-> {301},
            reasons |-> {3}, wide |-> FALSE, options |-> Options, live |-> FALSE, optional |-> {}])

(* A merchant reference that is the id the store gave one transaction and  *)
(* the shortId createPayment drew for another.                             *)
SharedReference == 2

(* Provider B calls one after another on a store that holds two            *)
(* transactions and whose ids lie among the shortIds.                      *)
InitResolve ==
  InitWith([procs |-> {1}, cap |-> MaxTx, log |-> TRUE,
            amounts |-> {1}, shortIds |-> {SharedReference, 10000}, paymeIds |-> {201},
            clickIds |-> {301}, reasons |-> {3}, wide |-> FALSE, options |-> Options,
            live |-> FALSE, optional |-> {}])

(* One invocation at a time on one transaction, with requests that carry   *)
(* wrong credentials, wrong signatures and amounts beside the stored one;  *)
(* Click also uses an id that Paynet uses.                                 *)
InitWide ==
  InitWith([procs |-> {1}, cap |-> SeqTx, log |-> TRUE,
            amounts |-> {1}, shortIds |-> {10000}, paymeIds |-> {201},
            clickIds |-> ClickIds \cup PaynetIds,
            reasons |-> {3}, wide |-> TRUE, options |-> Options, live |-> FALSE, optional |-> {}])

(* One invocation at a time on an instance created with any subset of the  *)
(* provider configurations, with two amounts.                              *)
InitConfig ==
  \E o \in SUBSET Providers :
    InitWith([procs |-> {1}, cap |-> SeqTx, log |-> TRUE,
              amounts |-> AmountsUzs, shortIds |-> {10000}, paymeIds |-> {201}, clickIds |-> {301},
              reasons |-> {3}, wide |-> FALSE, options |-> o, live |-> FALSE, optional |-> {}])

(* The callbacks a host may leave out.                                     *)
OptionalCallbacks == {"getFiscalData", "onPasswordChangeRequested"}

(* One invocation at a time on one transaction, with the query methods of  *)
(* Provider A and Provider C, on an instance with any subset of the        *)
(* optional callbacks; cancellations carry no reason or reason 4.          *)
InitQuery ==
  \E o \in SUBSET OptionalCallbacks :
    InitWith([procs |-> {1}, cap |-> SeqTx, log |-> TRUE,
              amounts |-> {1}, shortIds |-> {10000}, paymeIds |-> {201}, clickIds |-> {301},
              reasons |-> {Null, 4}, wide |-> FALSE, options |-> Options, live |-> FALSE,
              optional |-> o])

(* One invocation at a time on one transaction; the store and the         *)
(* callbacks throw at most MaxFailures times and the providers deliver a   *)
(* webhook again after an internal error.                                  *)
InitLive ==
  InitWith([procs |-> {1}, cap |-> SeqTx, log |-> TRUE,
            amounts |-> {1}, shortIds |-> {10000}, paymeIds |-> {201}, clickIds |-> {301},
            reasons |-> {3}, wide |-> FALSE, options |-> Options, live |-> TRUE, optional |-> {}])

(* The await a request's handler first suspends at.                       *)
Entry(r) ==
  CASE r.kind = "create" -> "cp_find"
    [] r.kind = "payme" /\ r.method = "CreateTransaction" -> "pm_create"
    [] r.kind = "payme" /\ r.method = "PerformTransaction" -> "pm_perform"
    [] r.kind = "payme" /\ r.method = "CancelTransaction" -> "pm_cancel"
    [] r.kind = "click" -> "ck_find"
    [] r.kind = "paynet" /\ r.method = "PerformTransaction" -> "pn_perform"
    [] r.kind = "paynet" /\ r.method = "CancelTransaction" -> "pn_cancel"
    [] r.kind = "paynet" /\ r.method = "CheckTransaction" -> "pn_check"
    [] r.kind = "paynet" /\ r.method = "GetInformation" -> "pn_info"
    [] r.kind = "payme" /\ r.method = "CheckPerformTransaction" -> "pm_checkperform"
    [] r.kind = "payme" /\ r.method = "CheckTransaction" -> "pm_check"
    [] r.kind = "payme" /\ r.method = "GetStatement" -> "pm_statement"
    [] r.kind = "paynet" /\ r.method = "GetStatement" -> "pn_statement"
    [] r.kind = "paynet" /\ r.method = "ChangePassword" -> "pn_password"
    [] OTHER -> "idle"

(* A request arrives at an idle invocation slot.                           *)
Receive(p, r) ==
  /\ p \in run.procs
  /\ pc[p] = "idle"
  /\ pc' = [pc EXCEPT ![p] = Entry(r)]
  /\ req' = [req EXCEPT ![p] = r]
  /\ UNCHANGED <<store, now, loc, resp, cbs, completedOk, cancelledOk, redelivery, failures, run>>

(* A request arrives and the handler answers r before its first await.    *)
Reject(p, rq, r) ==
  /\ p \in run.procs
  /\ pc[p] = "idle"
  /\ pc' = [pc EXCEPT ![p] = IF run.log THEN "reply" ELSE "idle"]
  /\ req' = [req EXCEPT ![p] = IF run.log THEN rq ELSE NoReq]
  /\ resp' = [resp EXCEPT ![p] = IF run.log THEN r ELSE NoResp]
  /\ UNCHANGED <<store, now, loc, cbs, completedOk, cancelledOk, redelivery, failures, run>>

(* The invocation continues at the next await with locals l.               *)
Goto(p, l, label) ==
  /\ pc' = [pc EXCEPT ![p] = label]
  /\ loc' = [loc EXCEPT ![p] = l]
  /\ UNCHANGED <<req, resp, redelivery, failures, run>>

(* The awaits at which a callback of the host is running.                  *)
CallbackAwaits ==
  {"pm_perform_cb", "pm_cancel_cb", "ck_complete_cb", "pn_perform_cb", "pn_cancel_cb"}

(* What an invocation that ends with ev at await pc[p] records beside ev:  *)
(* that the exception came out of a callback.                              *)
CallbackThrew(p, ev) ==
  IF "threw" \in ev /\ pc[p] \in CallbackAwaits THEN {"callbackThrew"} ELSE {}

(* The invocation ends with result r after doing ev; its locals are        *)
(* dropped.  In a logged run the caller then holds the result and what the *)
(* invocation did (pc = "reply").                                          *)
Ends(p, r, ev) ==
  /\ (run.live /\ "threw" \in ev) => failures < MaxFailures
  /\ failures' = IF run.live /\ "threw" \in ev THEN failures + 1 ELSE failures
  /\ pc' = [pc EXCEPT ![p] = IF run.log THEN "reply" ELSE "idle"]
  /\ loc' = [loc EXCEPT ![p] = NoLoc]
  /\ cbs' = [cbs EXCEPT ![p] = IF run.log THEN cbs[p] \cup ev \cup CallbackThrew(p, ev) ELSE {}]
  /\ req' = [req EXCEPT ![p] = IF run.log THEN req[p] ELSE NoReq]
  /\ resp' = [resp EXCEPT ![p] = IF run.log THEN r ELSE NoResp]
  /\ UNCHANGED <<redelivery, run>>

Done(p, r) == Ends(p, r, {})

(* The caller is done with the result.                                     *)
Reply(p) ==
  /\ pc[p] = "reply"
  /\ pc' = [pc EXCEPT ![p] = "idle"]
  /\ req' = [req EXCEPT ![p] = NoReq]
  /\ resp' = [resp EXCEPT ![p] = NoResp]
  /\ redelivery' = [redelivery EXCEPT ![p] = FALSE]
  /\ cbs' = [cbs EXCEPT ![p] = {}]
  /\ UNCHANGED <<store, now, loc, completedOk, cancelledOk, failures, run>>

(* The provider delivers the same webhook again; resp[p] keeps the answer  *)
(* to the previous delivery until the new one is answered.                 *)
Redeliver(p) ==
  /\ pc[p] = "reply"
  /\ req[p].kind # "create"
  /\ pc' = [pc EXCEPT ![p] = Entry(req[p])]
  /\ redelivery' = [redelivery EXCEPT ![p] = TRUE]
  /\ cbs' = [cbs EXCEPT ![p] = {}]
  /\ UNCHANGED <<store, now, req, loc, resp, completedOk, cancelledOk, failures, run>>

(* The invocation did ev: a callback returned ("completed", "cancelled"),  *)
(* a store write was applied ("write"), a transaction was created         *)
(* ("created"), an expired preparation was found ("expired"), a           *)
(* collaborator threw ("threw"), and it was a callback ("callbackThrew").  *)
Did(p, ev) == cbs' = [cbs EXCEPT ![p] = cbs[p] \cup ev]

(* The clock advances between requests.                                    *)
Tick ==
  /\ \A p \in Procs : pc[p] = "idle"
  /\ now < T0 + MaxTicks * TWELVE_HOURS_MS
  /\ now' = now + TWELVE_HOURS_MS
  /\ UNCHANGED <<store, pc, req, loc, resp, cbs, completedOk, cancelledOk, redelivery,
                 failures, run>>

(* ---------------------------------------------------------------------- *)
(* createPayment                                                           *)
(* ---------------------------------------------------------------------- *)
CreateReqs ==
  {[NoReq EXCEPT !.kind = "create", !.method = pr, !.amount = a] :
     pr \in Providers, a \in run.amounts}

NeedsShortId(provider) == provider \in {"click", "paynet"}

(* The result of createPayment once the transaction is settled: the        *)
(* provider's configuration is looked up, then the URL is built.           *)
(* The amount the payment URL carries: Payme takes tiyin, Click the UZS    *)
(* amount as passed in, Paynet Math.floor(tiyinToUzs(amountTiyin)).        *)
urlAmount(provider, amount) ==
  IF provider = "payme" THEN uzsToTiyin(amount)
  ELSE IF provider = "click" THEN amount
  ELSE uzsToTiyin(amount) \div TIYIN_PER_UZS

CreatePaymentResult(provider, id, amount) ==
  IF provider \in run.options
  THEN [Resp(200, 0, 0, 0, id) EXCEPT !.url = urlAmount(provider, amount)]
  ELSE ConfigError(provider)

(* In a run that goes on for ever no call arrives that would need a       *)
(* transaction beyond the store's capacity.                                *)
CreatePaymentReceive(p) ==
  /\ run.live => (~StoreFull \/ findPendingTransaction(UserId, PlanId) # NoTx)
  /\ \E r \in CreateReqs : Receive(p, r)

CreatePaymentFind(p) ==
  /\ pc[p] = "cp_find"
  /\ UNCHANGED <<store, now, completedOk, cancelledOk>>
  /\ \/ Done(p, Thrown)
     \/ LET tx == findPendingTransaction(UserId, PlanId)
            provider == req[p].method
        IN IF tx # NoTx /\ tx.provider = provider
              /\ ~(NeedsShortId(provider) /\ ~Truthy(tx.shortId))
           THEN Done(p, CreatePaymentResult(provider, tx.id, req[p].amount))
           ELSE Goto(p, Locals(tx, Null), "cp_write") /\ UNCHANGED cbs

CreatePaymentWrite(p) ==
  /\ pc[p] = "cp_write"
  /\ UNCHANGED <<now, completedOk, cancelledOk>>
  /\ LET provider == req[p].method
         amountTiyin == uzsToTiyin(req[p].amount)
         tx == loc[p]
     IN IF tx.id = Null
        THEN /\ ~StoreFull
             /\ \/ Done(p, Thrown) /\ UNCHANGED store
                \/ \E shortId \in (IF NeedsShortId(provider) THEN run.shortIds ELSE {Null}) :
                     /\ store' = createTransaction(UserId, PlanId, provider, amountTiyin, shortId)
                     /\ Ends(p, CreatePaymentResult(provider, NextFreeId, req[p].amount), {"created"})
        ELSE \/ Done(p, Thrown) /\ UNCHANGED store
             \/ IF tx.provider # provider
                THEN \E shortId \in (IF NeedsShortId(provider) /\ ~Truthy(tx.shortId)
                                     THEN run.shortIds ELSE {Null}) :
                       /\ store' = updateTransaction(tx.id,
                            IF Truthy(shortId)
                            THEN [provider |-> provider, amount |-> amountTiyin, shortId |-> shortId]
                            ELSE [provider |-> provider, amount |-> amountTiyin])
                       /\ Done(p, CreatePaymentResult(provider, tx.id, req[p].amount))
                ELSE \E shortId \in run.shortIds :
                       /\ store' = updateTransaction(tx.id, [shortId |-> shortId])
                       /\ Done(p, CreatePaymentResult(provider, tx.id, req[p].amount))

createPayment(p) ==
  \/ CreatePaymentReceive(p)
  \/ CreatePaymentFind(p)
  \/ CreatePaymentWrite(p)

(* ---------------------------------------------------------------------- *)
(* Callbacks: each may return or throw; returns are counted in logged runs *)
(* ---------------------------------------------------------------------- *)
Bump(f, id) == IF run.log THEN [f EXCEPT ![id] = f[id] + 1] ELSE f

CanCall(f, id) == run.log => f[id] < MaxCalls

(* ---------------------------------------------------------------------- *)
(* Provider A (Payme): CreateTransaction, PerformTransaction,              *)
(* CancelTransaction                                                       *)
(* ---------------------------------------------------------------------- *)
PaymeError(requestId, code) ==
  [Resp(200, code, 0, 0, Null) EXCEPT !.rpc = requestId]

createPaymeSuccess(requestId, state, time, id) ==
  [Resp(200, 0, state, time, id) EXCEPT !.rpc = requestId]

(* A mapping that reports a PREPARED transaction as COMPLETED.              *)
mapToPaymeState_Mutant(status, hasPerformTime) ==
  CASE status = "PENDING" -> PAYME_CREATED
    [] status = "PREPARED" -> PAYME_COMPLETED
    [] status = "COMPLETED" -> PAYME_COMPLETED
    [] status = "FAILED" -> IF hasPerformTime THEN PAYME_CANCELLED_AFTER_COMPLETE
                            ELSE PAYME_CANCELLED_BEFORE_COMPLETE
    [] OTHER -> PAYME_CREATED

mapToPaymeState(status, hasPerformTime) ==
  CASE status = "PENDING" -> PAYME_CREATED
    [] status = "PREPARED" -> PAYME_CREATED
    [] status = "COMPLETED" -> PAYME_COMPLETED
    [] status = "FAILED" -> IF hasPerformTime THEN PAYME_CANCELLED_AFTER_COMPLETE
                            ELSE PAYME_CANCELLED_BEFORE_COMPLETE
    [] OTHER -> PAYME_CREATED

(* new Date(tx.updatedAt || tx.createdAt).getTime()                        *)
UpdatedAtMs(tx) == tx.updatedAt

(* The id of the JSON-RPC requests.                                        *)
RequestId == 7

(* config.secretKey                                                        *)
SecretKey == "KEY"

timingSafeEqual(a, b) == a = b

(* base64Decode(authHeader.slice(6)).split(":") gives the segments; with   *)
(* fewer than two the password is undefined, timingSafeEqual throws and    *)
(* the catch returns false.                                                *)
verifyPaymeAuth(secretKey, authHeader) ==
  IF authHeader = NoHeader \/ authHeader.scheme # "Basic" THEN FALSE
  ELSE LET credentials == authHeader.parts
       IN IF Len(credentials) < 2 THEN FALSE
          ELSE credentials[1] = "Paycom" /\ timingSafeEqual(credentials[2], secretKey)

(* The headers Payme requests arrive with: the right credential and, in a  *)
(* wide run, none, another scheme, a wrong login, a wrong secret, no       *)
(* colon, and a password that continues after the secret ("KEY:x").        *)
PaymeHeaders ==
  {BasicAuth("Paycom", SecretKey)} \cup
  (IF run.wide
   THEN {NoHeader, Header("Bearer", <<"Paycom", SecretKey>>),
         BasicAuth("Admin", SecretKey), BasicAuth("Paycom", "BAD"),
         Header("Basic", <<"Paycom">>), Header("Basic", <<"Paycom", SecretKey, "x">>)}
   ELSE {})

PaymeBodies ==
  {[NoReq EXCEPT !.kind = "payme", !.method = "CreateTransaction", !.id = e,
                 !.time = t, !.amount = uzsToTiyin(a), !.order = o] :
     e \in run.paymeIds, t \in {x \in Times : x <= now}, a \in run.amounts,
     o \in 1..run.cap}
  \cup
  {[NoReq EXCEPT !.kind = "payme", !.method = "PerformTransaction", !.id = e] :
     e \in run.paymeIds}
  \cup
  {[NoReq EXCEPT !.kind = "payme", !.method = "CancelTransaction", !.id = e,
                 !.reason = r] : e \in run.paymeIds, r \in run.reasons}

PaymeReqs ==
  {[b EXCEPT !.rpc = RequestId, !.auth = h] : b \in PaymeBodies, h \in PaymeHeaders}

handlePaymeWebhook(p) ==
  /\ p \in run.procs
  /\ pc[p] = "idle"
  /\ \E r \in PaymeReqs :
       IF "payme" \notin run.options
       THEN Reject(p, r, ConfigError("payme"))
       ELSE IF verifyPaymeAuth(SecretKey, r.auth)
       THEN Receive(p, r)
       ELSE Reject(p, r, PaymeError(0, PAYME_INSUFFICIENT_PRIVILEGES))

(* The catch of the dispatcher: a store operation or a callback threw.     *)
PaymeCatch(p) ==
  /\ Ends(p, PaymeError(req[p].rpc, PAYME_INTERNAL_ERROR), {"threw"})
  /\ UNCHANGED <<store, now, completedOk, cancelledOk>>

(* An expiry test that counts a preparation of exactly 12 hours as expired. *)
isExpired_Mutant(tx) ==
  /\ tx.status = "PREPARED"
  /\ Truthy(tx.providerCreateTime)
  /\ now - tx.providerCreateTime >= TWELVE_HOURS_MS

isExpired(tx) ==
  /\ tx.status = "PREPARED"
  /\ Truthy(tx.providerCreateTime)
  /\ now - tx.providerCreateTime > TWELVE_HOURS_MS

handleCreate(p) ==
  /\ pc[p] = "pm_create"
  /\ \/ PaymeCatch(p)
     \/ /\ UNCHANGED <<store, now, completedOk, cancelledOk>>
        /\ LET r == req[p]
               tx == getTransactionById(r.order)
               \* mapToPaymeState(...) || CREATED: the mapping is never 0
               same == createPaymeSuccess(req[p].rpc,
                         mapToPaymeState(tx.status, Truthy(tx.providerPerformTime)),
                         r.time, tx.id)
           IN IF ~Truthy(r.order) \/ ~Truthy(r.id) \/ ~Truthy(r.time) \/ ~Truthy(r.amount)
                THEN Done(p, PaymeError(req[p].rpc, PAYME_ORDER_NOT_FOUND))
              ELSE IF tx = NoTx
                THEN Done(p, PaymeError(req[p].rpc, PAYME_ORDER_NOT_FOUND))
              ELSE IF r.amount # tx.amount
                THEN Done(p, PaymeError(req[p].rpc, PAYME_INVALID_AMOUNT))
              ELSE IF tx.providerTransactionId = r.id
                THEN Done(p, same)
              ELSE IF Truthy(tx.providerTransactionId)
                THEN IF isExpired(tx)
                     THEN Goto(p, Locals(tx, Null), "pm_create_write") /\ Did(p, {"expired"})
                     ELSE Done(p, PaymeError(req[p].rpc, PAYME_ORDER_ALREADY_PAID))
              ELSE IF tx.status \in {"COMPLETED", "FAILED"}
                THEN Done(p, PaymeError(req[p].rpc, PAYME_CANNOT_PERFORM_OPERATION))
              ELSE Goto(p, Locals(tx, Null), "pm_create_write") /\ UNCHANGED cbs

(* A write that does not record the create time.                           *)
handleCreateWrite_Mutant(p) ==
  /\ pc[p] = "pm_create_write"
  /\ \/ PaymeCatch(p)
     \/ /\ store' = updateTransaction(loc[p].id,
                      [status |-> "PREPARED", providerTransactionId |-> req[p].id])
        /\ Ends(p, createPaymeSuccess(req[p].rpc, PAYME_CREATED, req[p].time, loc[p].id), {"write"})
        /\ UNCHANGED <<now, completedOk, cancelledOk>>

handleCreateWrite(p) ==
  /\ pc[p] = "pm_create_write"
  /\ \/ PaymeCatch(p)
     \/ /\ store' = updateTransaction(loc[p].id,
                      [status |-> "PREPARED", providerTransactionId |-> req[p].id,
                       providerCreateTime |-> req[p].time])
        /\ Ends(p, createPaymeSuccess(req[p].rpc, PAYME_CREATED, req[p].time, loc[p].id), {"write"})
        /\ UNCHANGED <<now, completedOk, cancelledOk>>

handlePerform(p) ==
  /\ pc[p] = "pm_perform"
  /\ \/ PaymeCatch(p)
     \/ /\ UNCHANGED <<store, now, completedOk, cancelledOk>>
        /\ LET tx == getTransactionByProviderId("payme", req[p].id)
           IN IF ~Truthy(req[p].id) \/ tx = NoTx
                THEN Done(p, PaymeError(req[p].rpc, PAYME_TRANSACTION_NOT_FOUND))
              ELSE IF tx.status = "COMPLETED"
                THEN Done(p, createPaymeSuccess(req[p].rpc, PAYME_COMPLETED,
                        IF Truthy(tx.providerPerformTime) THEN tx.providerPerformTime
                        ELSE UpdatedAtMs(tx), tx.id))
              ELSE IF tx.status = "FAILED"
                THEN Done(p, PaymeError(req[p].rpc, PAYME_CANNOT_PERFORM_OPERATION))
              ELSE IF tx.status # "PREPARED"
                THEN Done(p, PaymeError(req[p].rpc, PAYME_CANNOT_PERFORM_OPERATION))
              ELSE Goto(p, Locals(tx, now), "pm_perform_cb") /\ UNCHANGED cbs

(* updatedTx, the transaction handed to onPaymentCompleted.                *)
performUpdatedTx_Mutant(p) == loc[p]

performUpdatedTx(p) == [loc[p] EXCEPT !.status = "COMPLETED"]

(* onPaymentCompleted(updatedTx); "shownCompleted" records that the        *)
(* callback saw the transaction as COMPLETED.                              *)
handlePerformCallback(p) ==
  /\ pc[p] = "pm_perform_cb"
  /\ CanCall(completedOk, loc[p].id)
  /\ \/ PaymeCatch(p)
     \/ /\ completedOk' = Bump(completedOk, loc[p].id)
        /\ Did(p, {"completed"} \cup
                   (IF performUpdatedTx(p).status = "COMPLETED"
                    THEN {"shownCompleted"} ELSE {}))
        /\ Goto(p, loc[p], "pm_perform_write")
        /\ UNCHANGED <<store, now, cancelledOk>>

handlePerformWrite(p) ==
  /\ pc[p] = "pm_perform_write"
  /\ \/ PaymeCatch(p)
     \/ /\ store' = updateTransaction(loc[p].id,
                      [status |-> "COMPLETED", providerTransactionId |-> req[p].id,
                       providerPerformTime |-> loc[p].time])
        /\ Ends(p, createPaymeSuccess(req[p].rpc, PAYME_COMPLETED, loc[p].time, loc[p].id), {"write"})
        /\ UNCHANGED <<now, completedOk, cancelledOk>>

handleCancel(p) ==
  /\ pc[p] = "pm_cancel"
  /\ \/ PaymeCatch(p)
     \/ /\ UNCHANGED <<store, now, completedOk, cancelledOk>>
        /\ LET tx == getTransactionByProviderId("payme", req[p].id)
           IN IF ~Truthy(req[p].id) \/ tx = NoTx
                THEN Done(p, PaymeError(req[p].rpc, PAYME_TRANSACTION_NOT_FOUND))
              ELSE IF tx.status = "FAILED"
                THEN Done(p, createPaymeSuccess(req[p].rpc,
                        IF Truthy(tx.providerPerformTime)
                        THEN PAYME_CANCELLED_AFTER_COMPLETE
                        ELSE PAYME_CANCELLED_BEFORE_COMPLETE,
                        IF Truthy(tx.providerCancelTime) THEN tx.providerCancelTime
                        ELSE UpdatedAtMs(tx), tx.id))
              ELSE IF tx.status = "COMPLETED"
                THEN Goto(p, Locals(tx, now), "pm_cancel_cb") /\ UNCHANGED cbs
              ELSE Goto(p, Locals(tx, now), "pm_cancel_write") /\ UNCHANGED cbs

handleCancelCallback(p) ==
  /\ pc[p] = "pm_cancel_cb"
  /\ CanCall(cancelledOk, loc[p].id)
  /\ \/ PaymeCatch(p)
     \/ /\ cancelledOk' = Bump(cancelledOk, loc[p].id)
        /\ Did(p, {"cancelled"})
        /\ Goto(p, loc[p], "pm_cancel_write")
        /\ UNCHANGED <<store, now, completedOk>>

cancelState_Mutant(status) ==
  IF status = "COMPLETED" THEN PAYME_CANCELLED_BEFORE_COMPLETE
  ELSE PAYME_CANCELLED_AFTER_COMPLETE

cancelState(status) ==
  IF status = "COMPLETED" THEN PAYME_CANCELLED_AFTER_COMPLETE
  ELSE PAYME_CANCELLED_BEFORE_COMPLETE

(* A write that does not record the reason.                                *)
handleCancelWrite_Mutant(p) ==
  /\ pc[p] = "pm_cancel_write"
  /\ \/ PaymeCatch(p)
     \/ /\ store' = updateTransaction(loc[p].id,
                      [status |-> "FAILED", providerTransactionId |-> req[p].id,
                       providerCancelTime |-> loc[p].time])
        /\ Ends(p, createPaymeSuccess(req[p].rpc, cancelState(loc[p].status),
                     loc[p].time, loc[p].id), {"write"})
        /\ UNCHANGED <<now, completedOk, cancelledOk>>

handleCancelWrite(p) ==
  /\ pc[p] = "pm_cancel_write"
  /\ \/ PaymeCatch(p)
     \/ /\ store' = updateTransaction(loc[p].id,
                      [status |-> "FAILED", providerTransactionId |-> req[p].id,
                       providerCancelTime |-> loc[p].time,
                       cancelReason |-> req[p].reason])
        /\ Ends(p, createPaymeSuccess(req[p].rpc, cancelState(loc[p].status),
                     loc[p].time, loc[p].id), {"write"})
        /\ UNCHANGED <<now, completedOk, cancelledOk>>

(* getTransactionsByDateRange of the reference store: the transactions of  *)
(* the provider, whatever the range.                                       *)
getTransactionsByDateRange(provider, from, to) ==
  LET OfProvider(tx) == tx # NoTx /\ tx.provider = provider
  IN SelectSeq(store, OfProvider)

(* A derivation that takes the stored reason for a cancellation after      *)
(* completion too.                                                         *)
formatPaymeTransaction_Mutant(tx) ==
  LET state == IF tx.status = "FAILED"
               THEN IF Truthy(tx.providerPerformTime)
                    THEN PAYME_CANCELLED_AFTER_COMPLETE
                    ELSE PAYME_CANCELLED_BEFORE_COMPLETE
               ELSE mapToPaymeState(tx.status, Truthy(tx.providerPerformTime))
  IN [performTime |-> IF Truthy(tx.providerPerformTime) THEN tx.providerPerformTime
                      ELSE IF tx.status = "COMPLETED" THEN UpdatedAtMs(tx) ELSE 0,
      cancelTime |-> IF Truthy(tx.providerCancelTime) THEN tx.providerCancelTime
                     ELSE IF tx.status = "FAILED" THEN UpdatedAtMs(tx) ELSE 0,
      state |-> state,
      reason |-> IF state \in {PAYME_CANCELLED_AFTER_COMPLETE, PAYME_CANCELLED_BEFORE_COMPLETE}
                 THEN IF Truthy(tx.cancelReason) THEN tx.cancelReason ELSE 3
                 ELSE Null]

(* The times, the state and the reason reported for a transaction; the     *)
(* create time is left out.                                                *)
formatPaymeTransaction(tx) ==
  LET state == IF tx.status = "FAILED"
               THEN IF Truthy(tx.providerPerformTime)
                    THEN PAYME_CANCELLED_AFTER_COMPLETE
                    ELSE PAYME_CANCELLED_BEFORE_COMPLETE
               ELSE mapToPaymeState(tx.status, Truthy(tx.providerPerformTime))
  IN [performTime |-> IF Truthy(tx.providerPerformTime) THEN tx.providerPerformTime
                      ELSE IF tx.status = "COMPLETED" THEN UpdatedAtMs(tx) ELSE 0,
      cancelTime |-> IF Truthy(tx.providerCancelTime) THEN tx.providerCancelTime
                     ELSE IF tx.status = "FAILED" THEN UpdatedAtMs(tx) ELSE 0,
      state |-> state,
      reason |-> IF state = PAYME_CANCELLED_AFTER_COMPLETE THEN 5
                 ELSE IF state = PAYME_CANCELLED_BEFORE_COMPLETE
                 THEN IF Truthy(tx.cancelReason) THEN tx.cancelReason ELSE 3
                 ELSE Null]

(* The query requests of Provider A: CheckPerformTransaction with and      *)
(* without an order and with both amounts, CheckTransaction with and       *)
(* without an id, GetStatement with and without its range, and a method    *)
(* the handler does not know.                                              *)
PaymeQueryBodies ==
  {[NoReq EXCEPT !.kind = "payme", !.method = "CheckPerformTransaction",
                 !.amount = uzsToTiyin(a), !.order = o] :
     a \in AmountsUzs, o \in {Null} \cup 1..run.cap}
  \cup
  {[NoReq EXCEPT !.kind = "payme", !.method = "CheckTransaction", !.id = e] :
     e \in {Null} \cup run.paymeIds}
  \cup
  {[NoReq EXCEPT !.kind = "payme", !.method = "GetStatement", !.from = f, !.to = t] :
     f \in {Null, T0}, t \in {Null, now}}
  \cup
  {[NoReq EXCEPT !.kind = "payme", !.method = "Other"]}

PaymeQueryReqs ==
  {[b EXCEPT !.rpc = RequestId, !.auth = h] : b \in PaymeQueryBodies, h \in PaymeHeaders}

PaymeQueryReceive(p) ==
  /\ p \in run.procs
  /\ pc[p] = "idle"
  /\ \E r \in PaymeQueryReqs :
       IF "payme" \notin run.options
       THEN Reject(p, r, ConfigError("payme"))
       ELSE IF ~verifyPaymeAuth(SecretKey, r.auth)
       THEN Reject(p, r, PaymeError(0, PAYME_INSUFFICIENT_PRIVILEGES))
       ELSE IF Entry(r) = "idle"
       THEN Reject(p, r, PaymeError(r.rpc, PAYME_METHOD_NOT_FOUND))
       ELSE Receive(p, r)

(* A check that tests the status before the amount.                        *)
checkPerformError_Mutant(tx, amount) ==
  IF tx = NoTx THEN PAYME_ORDER_NOT_FOUND
  ELSE IF tx.status = "FAILED" THEN PAYME_CANNOT_PERFORM_OPERATION
  ELSE IF amount # tx.amount THEN PAYME_INVALID_AMOUNT
  ELSE 0

(* The error CheckPerformTransaction answers for the transaction read, 0   *)
(* when it allows the payment.                                             *)
checkPerformError(tx, amount) ==
  IF tx = NoTx THEN PAYME_ORDER_NOT_FOUND
  ELSE IF amount # tx.amount THEN PAYME_INVALID_AMOUNT
  ELSE IF tx.status = "FAILED" THEN PAYME_CANNOT_PERFORM_OPERATION
  ELSE 0

handleCheckPerform(p) ==
  /\ pc[p] = "pm_checkperform"
  /\ UNCHANGED <<store, now, completedOk, cancelledOk>>
  /\ IF ~Truthy(req[p].order)
     THEN Done(p, PaymeError(req[p].rpc, PAYME_ORDER_NOT_FOUND))
     ELSE \/ PaymeCatch(p)
          \/ LET tx == getTransactionById(req[p].order)
                 error == checkPerformError(tx, req[p].amount)
             IN IF error # 0
                  THEN Done(p, PaymeError(req[p].rpc, error))
                ELSE IF "getFiscalData" \in run.optional
                  THEN Goto(p, Locals(tx, Null), "pm_checkperform_fiscal") /\ UNCHANGED cbs
                ELSE Done(p, [createPaymeSuccess(req[p].rpc, 0, 0, Null)
                                EXCEPT !.result = <<"allow">>])

(* getFiscalData(transaction) returns a detail or nothing, or throws.      *)
handleCheckPerformFiscal(p) ==
  /\ pc[p] = "pm_checkperform_fiscal"
  /\ UNCHANGED <<store, now, completedOk, cancelledOk>>
  /\ \/ PaymeCatch(p)
     \/ \E detail \in {<<>>, <<"detail">>} :
          Done(p, [createPaymeSuccess(req[p].rpc, 0, 0, Null)
                     EXCEPT !.result = <<"allow">> \o detail])

(* A CheckTransaction that cancels the preparation it is asked about.      *)
handleCheck_Mutant(p) ==
  /\ pc[p] = "pm_check"
  /\ UNCHANGED <<now, completedOk, cancelledOk>>
  /\ IF ~Truthy(req[p].id)
     THEN Done(p, PaymeError(req[p].rpc, PAYME_TRANSACTION_NOT_FOUND)) /\ UNCHANGED store
     ELSE \/ PaymeCatch(p)
          \/ LET tx == getTransactionByProviderId("payme", req[p].id)
                 f == formatPaymeTransaction(tx)
             IN IF tx = NoTx
                  THEN Done(p, PaymeError(req[p].rpc, PAYME_TRANSACTION_NOT_FOUND))
                       /\ UNCHANGED store
                ELSE /\ store' = IF tx.status = "PREPARED"
                                 THEN updateTransaction(tx.id, [status |-> "FAILED"])
                                 ELSE store
                     /\ Done(p, [createPaymeSuccess(req[p].rpc, f.state, 0, tx.id)
                                   EXCEPT !.result = <<f>>])

handleCheck(p) ==
  /\ pc[p] = "pm_check"
  /\ UNCHANGED <<store, now, completedOk, cancelledOk>>
  /\ IF ~Truthy(req[p].id)
     THEN Done(p, PaymeError(req[p].rpc, PAYME_TRANSACTION_NOT_FOUND))
     ELSE \/ PaymeCatch(p)
          \/ LET tx == getTransactionByProviderId("payme", req[p].id)
                 f == formatPaymeTransaction(tx)
             IN IF tx = NoTx
                  THEN Done(p, PaymeError(req[p].rpc, PAYME_TRANSACTION_NOT_FOUND))
                ELSE Done(p, [createPaymeSuccess(req[p].rpc, f.state, 0, tx.id)
                                EXCEPT !.result = <<f>>])

(* One item of the statement.                                              *)
PaymeStatementItem(tx) ==
  [id |-> tx.providerTransactionId, amount |-> tx.amount, transaction |-> tx.id,
   format |-> formatPaymeTransaction(tx)]

handleGetStatement(p) ==
  /\ pc[p] = "pm_statement"
  /\ UNCHANGED <<store, now, completedOk, cancelledOk>>
  /\ IF ~Truthy(req[p].from) \/ ~Truthy(req[p].to)
     THEN Done(p, PaymeError(req[p].rpc, PAYME_INVALID_RPC_REQUEST))
     ELSE \/ PaymeCatch(p)
          \/ LET transactions == getTransactionsByDateRange("payme", req[p].from, req[p].to)
             IN Done(p, [createPaymeSuccess(req[p].rpc, 0, 0, Null)
                           EXCEPT !.result = [i \in 1..Len(transactions) |->
                                                PaymeStatementItem(transactions[i])]])

PaymeQuery(p) ==
  \/ PaymeQueryReceive(p)
  \/ handleCheckPerform(p)
  \/ handleCheckPerformFiscal(p)
  \/ handleCheck(p)
  \/ handleGetStatement(p)

Payme(p) ==
  \/ handlePaymeWebhook(p)
  \/ handleCreate(p)
  \/ handleCreateWrite(p)
  \/ handlePerform(p)
  \/ handlePerformCallback(p)
  \/ handlePerformWrite(p)
  \/ handleCancel(p)
  \/ handleCancelCallback(p)
  \/ handleCancelWrite(p)

(* ---------------------------------------------------------------------- *)
(* Provider B (Click): Prepare (action 0) and Complete (action 1)          *)
(* ---------------------------------------------------------------------- *)
CLICK_SUCCESS == 0
CLICK_SIGN_CHECK_FAILED == -1
CLICK_INVALID_AMOUNT == -2
CLICK_ACTION_NOT_FOUND == -3
CLICK_ALREADY_PAID == -4
CLICK_USER_NOT_FOUND == -5
CLICK_ID_MISMATCH == -6
CLICK_INTERNAL_ERROR == -7
CLICK_TRANSACTION_CANCELLED == -9

(* data.service_id and data.sign_time                                      *)
ServiceId == "svc"
SignTime == "t"

(* Click sends amounts in UZS with decimals; a request carries its amount  *)
(* in thousandths of a UZS.                                                *)
MILLI_PER_UZS == 1000

(* In a wide run amounts also arrive up to two tiyin and fractions of a    *)
(* tiyin away from the whole amounts (none at a half tiyin).               *)
ClickAmounts ==
  {a * MILLI_PER_UZS + d : a \in run.amounts,
     d \in IF run.wide THEN {-20, -16, -14, -10, 0, 10, 14, 16, 20} ELSE {0}}

(* The template literal of verifyClickSignature, field by field.           *)
ClickSignSource(secretKey, data, withPrepareId) ==
  <<data.id, ServiceId, secretKey, data.order,
    IF withPrepareId THEN data.prepareId ELSE Null,
    data.amount, data.action, SignTime>>

(* The digest of a source string: equal digests only for equal sources.    *)
md5(source) == [md5 |-> source]

(* The sign_string values a body arrives with: the right one and, in a     *)
(* wide run, one made with another key and one made with the prepare id    *)
(* left out.                                                               *)
ClickSigns(b) ==
  {md5(ClickSignSource(SecretKey, b, b.action = 1))} \cup
  (IF run.wide
   THEN {md5(ClickSignSource("BAD", b, b.action = 1)),
         md5(ClickSignSource(SecretKey, b, FALSE))}
   ELSE {})

ClickBodies ==
  {[NoReq EXCEPT !.kind = "click", !.id = c, !.order = o, !.amount = a,
                 !.action = act, !.prepareId = pid, !.error = e] :
     c \in run.clickIds, o \in (1..run.cap) \cup run.shortIds, a \in ClickAmounts,
     act \in {0, 1}, pid \in {Null} \cup 1..run.cap, e \in {0, -1}}

ClickReqs ==
  UNION {{[b EXCEPT !.sign = g] : g \in ClickSigns(b)} :
           b \in {x \in ClickBodies : x.action = 0 => x.prepareId = Null}}

ClickResult(code, id) == Resp(200, code, 0, 0, id)

(* An async function returns a Promise of its result.                      *)
Promise(value) == [settled |-> value]

verifyClickSignature(secretKey, data) ==
  Promise(md5(ClickSignSource(secretKey, data, data.action = 1)) = data.sign)

(* !isValid, where isValid holds the Promise verifyClickSignature returned *)
(* (the call is not awaited): an object is truthy whatever it settles to.  *)
NotObject(object) == FALSE

(* Math.round(Number(amount) * 100), the amount in thousandths of a UZS    *)
clickAmountTiyin_Mutant(amount) == (amount * TIYIN_PER_UZS) \div MILLI_PER_UZS

clickAmountTiyin(amount) ==
  (amount * TIYIN_PER_UZS + MILLI_PER_UZS \div 2) \div MILLI_PER_UZS

Abs(x) == IF x < 0 THEN -x ELSE x

ClickReceive(p) ==
  /\ p \in run.procs
  /\ pc[p] = "idle"
  /\ \E r \in ClickReqs :
       IF "click" \notin run.options
       THEN Reject(p, r, ConfigError("click"))
       ELSE IF NotObject(verifyClickSignature(SecretKey, r))
       THEN Reject(p, r, ClickResult(CLICK_SIGN_CHECK_FAILED, Null))
       ELSE Receive(p, r)

(* The catch around the handler body.                                      *)
ClickCatch(p) ==
  /\ Ends(p, ClickResult(CLICK_INTERNAL_ERROR, Null), {"threw"})
  /\ UNCHANGED <<store, now, completedOk, cancelledOk>>

(* The handler body once the transaction tx is resolved, up to its next    *)
(* await.                                                                  *)
ClickResolved(p, tx) ==
  LET r == req[p] IN
  IF r.error < 0
    THEN Goto(p, Locals(tx, Null), "ck_cancel_write") /\ UNCHANGED cbs
  ELSE IF Abs(clickAmountTiyin(r.amount) - tx.amount) > 1
    THEN Done(p, ClickResult(CLICK_INVALID_AMOUNT, Null))
  ELSE IF r.action = 0
    THEN IF tx.status = "COMPLETED"
           THEN Done(p, ClickResult(CLICK_ALREADY_PAID, Null))
         ELSE IF tx.status = "FAILED"
           THEN Done(p, ClickResult(CLICK_TRANSACTION_CANCELLED, Null))
         ELSE Goto(p, Locals(tx, Null), "ck_prepare_write") /\ UNCHANGED cbs
  ELSE IF r.action = 1
    THEN IF r.prepareId # tx.id
           THEN Done(p, ClickResult(CLICK_ID_MISMATCH, Null))
         ELSE IF tx.status = "COMPLETED"
           THEN Done(p, ClickResult(CLICK_SUCCESS, tx.id))
         ELSE IF tx.status = "FAILED"
           THEN Done(p, ClickResult(CLICK_TRANSACTION_CANCELLED, Null))
         ELSE Goto(p, Locals(tx, Null), "ck_complete_cb") /\ UNCHANGED cbs
  ELSE Done(p, ClickResult(CLICK_ACTION_NOT_FOUND, Null))

(* A resolution that looks the reference up as a shortId first.            *)
ClickFindById_Mutant(p) ==
  /\ pc[p] = "ck_find"
  /\ \/ ClickCatch(p)
     \/ /\ UNCHANGED <<store, now, completedOk, cancelledOk>>
        /\ LET tx == getTransactionByShortId(req[p].order)
           IN IF tx = NoTx THEN Goto(p, NoLoc, "ck_find2") /\ UNCHANGED cbs
              ELSE ClickResolved(p, tx)

ClickFindById(p) ==
  /\ pc[p] = "ck_find"
  /\ \/ ClickCatch(p)
     \/ /\ UNCHANGED <<store, now, completedOk, cancelledOk>>
        /\ LET tx == getTransactionById(req[p].order)
           IN IF tx = NoTx THEN Goto(p, NoLoc, "ck_find2") /\ UNCHANGED cbs
              ELSE ClickResolved(p, tx)

ClickFindByShortId(p) ==
  /\ pc[p] = "ck_find2"
  /\ \/ ClickCatch(p)
     \/ /\ UNCHANGED <<store, now, completedOk, cancelledOk>>
        /\ LET tx == getTransactionByShortId(req[p].order)
           IN IF tx = NoTx THEN Done(p, ClickResult(CLICK_USER_NOT_FOUND, Null))
              ELSE ClickResolved(p, tx)

ClickCancelWrite_Mutant(p) ==
  /\ pc[p] = "ck_cancel_write"
  /\ \/ ClickCatch(p)
     \/ /\ store' = IF loc[p].status = "COMPLETED" THEN store
                     ELSE updateTransaction(loc[p].id,
                            [status |-> "FAILED", providerTransactionId |-> req[p].id])
        /\ Ends(p, ClickResult(CLICK_TRANSACTION_CANCELLED, Null), {"write"})
        /\ UNCHANGED <<now, completedOk, cancelledOk>>

ClickCancelWrite(p) ==
  /\ pc[p] = "ck_cancel_write"
  /\ \/ ClickCatch(p)
     \/ /\ store' = updateTransaction(loc[p].id,
                      [status |-> "FAILED", providerTransactionId |-> req[p].id])
        /\ Ends(p, ClickResult(CLICK_TRANSACTION_CANCELLED, Null), {"write"})
        /\ UNCHANGED <<now, completedOk, cancelledOk>>

ClickPrepareWrite_Mutant(p) ==
  /\ pc[p] = "ck_prepare_write"
  /\ \/ ClickCatch(p)
     \/ /\ store' = updateTransaction(loc[p].id,
                      [status |-> "PREPARED", providerTransactionId |-> Null])
        /\ Ends(p, ClickResult(CLICK_SUCCESS, loc[p].id), {"write"})
        /\ UNCHANGED <<now, completedOk, cancelledOk>>

ClickPrepareWrite(p) ==
  /\ pc[p] = "ck_prepare_write"
  /\ \/ ClickCatch(p)
     \/ /\ store' = updateTransaction(loc[p].id,
                      [status |-> "PREPARED", providerTransactionId |-> req[p].id])
        /\ Ends(p, ClickResult(CLICK_SUCCESS, loc[p].id), {"write"})
        /\ UNCHANGED <<now, completedOk, cancelledOk>>

ClickCompleteCallback(p) ==
  /\ pc[p] = "ck_complete_cb"
  /\ CanCall(completedOk, loc[p].id)
  /\ \/ ClickCatch(p)
     \/ /\ completedOk' = Bump(completedOk, loc[p].id)
        /\ Did(p, {"completed"})
        /\ Goto(p, loc[p], "ck_complete_write")
        /\ UNCHANGED <<store, now, cancelledOk>>

ClickCompleteWrite_Mutant(p) ==
  /\ pc[p] = "ck_complete_write"
  /\ \/ ClickCatch(p)
     \/ /\ store' = updateTransaction(loc[p].id,
                      [status |-> "COMPLETED", providerTransactionId |-> req[p].id])
        /\ Ends(p, ClickResult(CLICK_SUCCESS, Null), {"write"})
        /\ UNCHANGED <<now, completedOk, cancelledOk>>

ClickCompleteWrite(p) ==
  /\ pc[p] = "ck_complete_write"
  /\ \/ ClickCatch(p)
     \/ /\ store' = updateTransaction(loc[p].id,
                      [status |-> "COMPLETED", providerTransactionId |-> req[p].id])
        /\ Ends(p, ClickResult(CLICK_SUCCESS, loc[p].id), {"write"})
        /\ UNCHANGED <<now, completedOk, cancelledOk>>

handleClickWebhook(p) ==
  \/ ClickReceive(p)
  \/ ClickFindById(p)
  \/ ClickFindByShortId(p)
  \/ ClickCancelWrite(p)
  \/ ClickPrepareWrite(p)
  \/ ClickCompleteCallback(p)
  \/ ClickCompleteWrite(p)

(* ---------------------------------------------------------------------- *)
(* Provider C (Paynet): Perform-, Check- and CancelTransaction             *)
(* ---------------------------------------------------------------------- *)
(* config.username and config.password                                     *)
Username == "paynet"
Password == "PW"

(* As verifyPaymeAuth: with fewer than two segments timingSafeEqual throws *)
(* and the catch returns false.                                            *)
verifyPaynetAuth(username, password, authHeader) ==
  IF authHeader = NoHeader \/ authHeader.scheme # "Basic" THEN FALSE
  ELSE LET credentials == authHeader.parts
       IN IF Len(credentials) < 2 THEN FALSE
          ELSE /\ timingSafeEqual(credentials[1], username)
               /\ timingSafeEqual(credentials[2], password)

PaynetHeaders ==
  {BasicAuth(Username, Password)} \cup
  (IF run.wide
   THEN {NoHeader, Header("Bearer", <<Username, Password>>),
         BasicAuth("other", Password), BasicAuth(Username, "BAD"),
         Header("Basic", <<Username>>)}
   ELSE {})

(* The amounts PerformTransaction arrives with, in tiyin; in a wide run    *)
(* also one tiyin beside them.                                             *)
PaynetAmounts ==
  {uzsToTiyin(a) + d : a \in run.amounts, d \in IF run.wide THEN {-1, 0, 1} ELSE {0}}

PaynetBodies ==
  {[NoReq EXCEPT !.kind = "paynet", !.method = "PerformTransaction", !.id = e,
                 !.amount = a, !.order = o] :
     e \in PaynetIds, a \in PaynetAmounts, o \in run.shortIds}
  \cup
  {[NoReq EXCEPT !.kind = "paynet", !.method = m, !.id = e] :
     m \in {"CancelTransaction", "CheckTransaction"}, e \in PaynetIds}
  \cup
  {[NoReq EXCEPT !.kind = "paynet", !.method = "GetInformation", !.order = o] :
     o \in run.shortIds}

PaynetReqs ==
  {[b EXCEPT !.rpc = RequestId, !.auth = h] : b \in PaynetBodies, h \in PaynetHeaders}

PaynetError(code) == Resp(200, code, 0, 0, Null)

createPaynetSuccess(state, id) == Resp(200, 0, state, 0, id)

mapToPaynetState_Mutant(status) ==
  CASE status = "COMPLETED" -> PAYNET_SUCCESS
    [] status = "FAILED" -> PAYNET_CANCELLED
    [] status = "PENDING" -> PAYNET_SUCCESS
    [] status = "PREPARED" -> PAYNET_NOT_FOUND
    [] OTHER -> PAYNET_NOT_FOUND

mapToPaynetState(status) ==
  CASE status = "COMPLETED" -> PAYNET_SUCCESS
    [] status = "FAILED" -> PAYNET_CANCELLED
    [] status = "PENDING" -> PAYNET_SUCCESS
    [] status = "PREPARED" -> PAYNET_SUCCESS
    [] OTHER -> PAYNET_NOT_FOUND

PaynetReceive(p) ==
  /\ p \in run.procs
  /\ pc[p] = "idle"
  /\ \E r \in PaynetReqs :
       IF "paynet" \notin run.options
       THEN Reject(p, r, ConfigError("paynet"))
       ELSE IF verifyPaynetAuth(Username, Password, r.auth)
       THEN Receive(p, r)
       ELSE Reject(p, r, [PaynetError(PAYNET_ACCESS_DENIED) EXCEPT !.http = 401])

(* The dispatcher has no catch: an exception leaves the handler.           *)
PaynetThrow(p) ==
  /\ Ends(p, Thrown, {"threw"})
  /\ UNCHANGED <<store, now, completedOk, cancelledOk>>

(* Only PENDING transactions are valid for GetInformation.                 *)
validForInformation_Mutant(status) == status \in {"PENDING", "PREPARED"}

validForInformation(status) == status = "PENDING"

handleGetInformation(p) ==
  /\ pc[p] = "pn_info"
  /\ \/ PaynetThrow(p)
     \/ /\ UNCHANGED <<store, now, completedOk, cancelledOk>>
        /\ LET tx == getTransactionByShortId(req[p].order)
           IN IF ~Truthy(req[p].order)
                THEN Done(p, PaynetError(PAYNET_MISSING_PARAMS))
              ELSE IF tx = NoTx
                THEN Done(p, PaynetError(PAYNET_CLIENT_NOT_FOUND))
              ELSE IF ~validForInformation(tx.status)
                THEN Done(p, PaynetError(PAYNET_CLIENT_NOT_FOUND))
              ELSE IF tx.provider # "paynet"
                THEN Goto(p, Locals(tx, Null), "pn_info_backfill") /\ UNCHANGED cbs
              ELSE Goto(p, Locals(tx, Null), "pn_info_user") /\ UNCHANGED cbs

PaynetInfoBackfill(p) ==
  /\ pc[p] = "pn_info_backfill"
  /\ \/ PaynetThrow(p)
     \/ /\ store' = updateTransaction(loc[p].id, [provider |-> "paynet"])
        /\ Did(p, {"write"})
        /\ Goto(p, loc[p], "pn_info_user")
        /\ UNCHANGED <<now, completedOk, cancelledOk>>

(* callbacks.getUserInfo, when configured, and the result; the callback    *)
(* changes nothing the model holds.                                        *)
PaynetInfoUser(p) ==
  /\ pc[p] = "pn_info_user"
  /\ UNCHANGED <<store, now, completedOk, cancelledOk>>
  /\ \/ Ends(p, Thrown, {"threw"})
     \/ Ends(p, createPaynetSuccess(0, loc[p].id), {})

(* The catch inside PerformTransaction.                                    *)
PaynetPerformCatch(p) ==
  /\ Ends(p, PaynetError(PAYNET_INTERNAL_ERROR), {"threw"})
  /\ UNCHANGED <<store, now, completedOk, cancelledOk>>

(* PerformTransaction between the provider backfill and the status write,  *)
(* on the transaction as it was read.                                      *)
amountDiffers_Mutant(amount, stored) == amount - stored > 1 \/ stored - amount > 1

amountDiffers(amount, stored) == amount # stored

PaynetPerformChecks(p, tx, ev) ==
  IF amountDiffers(req[p].amount, tx.amount)
    THEN Ends(p, PaynetError(PAYNET_INVALID_AMOUNT), ev)
  ELSE IF tx.status = "COMPLETED"
    THEN Ends(p, PaynetError(PAYNET_TRANSACTION_EXISTS), ev)
  ELSE IF tx.status = "FAILED"
    THEN Ends(p, PaynetError(PAYNET_TRANSACTION_CANCELLED), ev)
  ELSE Goto(p, tx, "pn_perform_write") /\ Did(p, ev)

handlePerformTransaction(p) ==
  /\ pc[p] = "pn_perform"
  /\ \/ PaynetThrow(p)
     \/ /\ UNCHANGED <<store, now, completedOk, cancelledOk>>
        /\ LET tx == getTransactionByShortId(req[p].order)
           IN IF ~Truthy(req[p].id) \/ ~Truthy(req[p].amount) \/ ~Truthy(req[p].order)
                THEN Done(p, PaynetError(PAYNET_MISSING_PARAMS))
              ELSE IF tx = NoTx
                THEN Done(p, PaynetError(PAYNET_CLIENT_NOT_FOUND))
              ELSE IF tx.provider # "paynet"
                THEN Goto(p, Locals(tx, Null), "pn_perform_backfill") /\ UNCHANGED cbs
              ELSE PaynetPerformChecks(p, Locals(tx, Null), {})

PaynetPerformBackfill(p) ==
  /\ pc[p] = "pn_perform_backfill"
  /\ \/ PaynetThrow(p)
     \/ /\ store' = updateTransaction(loc[p].id, [provider |-> "paynet"])
        /\ UNCHANGED <<now, completedOk, cancelledOk>>
        /\ PaynetPerformChecks(p, loc[p], {"write"})

PaynetPerformWrite(p) ==
  /\ pc[p] = "pn_perform_write"
  /\ \/ PaynetPerformCatch(p)
     \/ /\ store' = updateTransaction(loc[p].id,
                      [status |-> "COMPLETED", providerTransactionId |-> req[p].id])
        /\ Did(p, {"write"})
        /\ Goto(p, loc[p], "pn_perform_cb")
        /\ UNCHANGED <<now, completedOk, cancelledOk>>

PaynetPerformCallback(p) ==
  /\ pc[p] = "pn_perform_cb"
  /\ CanCall(completedOk, loc[p].id)
  /\ \/ PaynetPerformCatch(p)
     \/ /\ completedOk' = Bump(completedOk, loc[p].id)
        /\ Ends(p, createPaynetSuccess(0, loc[p].id), {"completed"})
        /\ UNCHANGED <<store, now, cancelledOk>>

handleCheckTransaction(p) ==
  /\ pc[p] = "pn_check"
  /\ \/ PaynetThrow(p)
     \/ /\ UNCHANGED <<store, now, completedOk, cancelledOk>>
        /\ LET tx == getTransactionByProviderId("paynet", req[p].id)
           IN IF ~Truthy(req[p].id)
                THEN Done(p, PaynetError(PAYNET_MISSING_PARAMS))
              ELSE IF tx = NoTx
                THEN Done(p, createPaynetSuccess(PAYNET_NOT_FOUND, 0))
              ELSE Done(p, createPaynetSuccess(mapToPaynetState(tx.status), tx.id))

handleCancelTransaction(p) ==
  /\ pc[p] = "pn_cancel"
  /\ \/ PaynetThrow(p)
     \/ /\ UNCHANGED <<store, now, completedOk, cancelledOk>>
        /\ LET tx == getTransactionByProviderId("paynet", req[p].id)
           IN IF ~Truthy(req[p].id)
                THEN Done(p, PaynetError(PAYNET_MISSING_PARAMS))
              ELSE IF tx = NoTx
                THEN Done(p, PaynetError(PAYNET_TRANSACTION_NOT_FOUND))
              ELSE IF tx.status = "FAILED"
                THEN Done(p, PaynetError(PAYNET_TRANSACTION_CANCELLED))
              ELSE IF tx.status = "COMPLETED"
                THEN Goto(p, Locals(tx, Null), "pn_cancel_cb") /\ UNCHANGED cbs
              ELSE Goto(p, Locals(tx, Null), "pn_cancel_write") /\ UNCHANGED cbs

PaynetCancelCallback(p) ==
  /\ pc[p] = "pn_cancel_cb"
  /\ CanCall(cancelledOk, loc[p].id)
  /\ \/ PaynetThrow(p)
     \/ /\ cancelledOk' = Bump(cancelledOk, loc[p].id)
        /\ Did(p, {"cancelled"})
        /\ Goto(p, loc[p], "pn_cancel_write")
        /\ UNCHANGED <<store, now, completedOk>>

PaynetCancelWrite_Mutant(p) ==
  /\ pc[p] = "pn_cancel_write"
  /\ \/ PaynetThrow(p)
     \/ /\ store' = updateTransaction(loc[p].id,
                      [status |-> "FAILED", providerTransactionId |-> Null])
        /\ Ends(p, createPaynetSuccess(PAYNET_CANCELLED, loc[p].id), {"write"})
        /\ UNCHANGED <<now, completedOk, cancelledOk>>

PaynetCancelWrite(p) ==
  /\ pc[p] = "pn_cancel_write"
  /\ \/ PaynetThrow(p)
     \/ /\ store' = updateTransaction(loc[p].id,
                      [status |-> "FAILED", providerTransactionId |-> req[p].id])
        /\ Ends(p, createPaynetSuccess(PAYNET_CANCELLED, loc[p].id), {"write"})
        /\ UNCHANGED <<now, completedOk, cancelledOk>>

handlePaynetWebhook(p) ==
  \/ PaynetReceive(p)
  \/ handleGetInformation(p)
  \/ PaynetInfoBackfill(p)
  \/ PaynetInfoUser(p)
  \/ handlePerformTransaction(p)
  \/ PaynetPerformBackfill(p)
  \/ PaynetPerformWrite(p)
  \/ PaynetPerformCallback(p)
  \/ handleCheckTransaction(p)
  \/ handleCancelTransaction(p)
  \/ PaynetCancelCallback(p)
  \/ PaynetCancelWrite(p)

(* GetStatement, ChangePassword and a method the handler does not know.    *)
PaynetQueryBodies ==
  {[NoReq EXCEPT !.kind = "paynet", !.method = "GetStatement", !.from = f, !.to = t] :
     f \in {Null, T0}, t \in {Null, now}}
  \cup
  {[NoReq EXCEPT !.kind = "paynet", !.method = "ChangePassword", !.password = w] :
     w \in {Null, 1}}
  \cup
  {[NoReq EXCEPT !.kind = "paynet", !.method = "Other"]}

PaynetQueryReqs ==
  {[b EXCEPT !.rpc = RequestId, !.auth = h] : b \in PaynetQueryBodies, h \in PaynetHeaders}

PaynetQueryReceive(p) ==
  /\ p \in run.procs
  /\ pc[p] = "idle"
  /\ \E r \in PaynetQueryReqs :
       IF "paynet" \notin run.options
       THEN Reject(p, r, ConfigError("paynet"))
       ELSE IF ~verifyPaynetAuth(Username, Password, r.auth)
       THEN Reject(p, r, [PaynetError(PAYNET_ACCESS_DENIED) EXCEPT !.http = 401])
       ELSE IF Entry(r) = "idle"
       THEN Reject(p, r, PaynetError(PAYNET_METHOD_NOT_FOUND))
       ELSE Receive(p, r)

(* One item of the statement: Math.floor(tiyinToUzs(tx.amount)), the       *)
(* transaction's id and Number(tx.providerTransactionId) || 0.             *)
PaynetStatementItem(tx) ==
  [amount |-> tx.amount \div TIYIN_PER_UZS, providerTrnId |-> tx.id,
   transactionId |-> tx.providerTransactionId]

PaynetGetStatement(p) ==
  /\ pc[p] = "pn_statement"
  /\ UNCHANGED <<store, now, completedOk, cancelledOk>>
  /\ IF ~Truthy(req[p].from) \/ ~Truthy(req[p].to)
     THEN Done(p, PaynetError(PAYNET_INVALID_DATE_FORMAT))
     ELSE \/ PaynetThrow(p)
          \/ LET transactions == getTransactionsByDateRange("paynet", req[p].from, req[p].to)
             IN Done(p, [createPaynetSuccess(0, Null)
                           EXCEPT !.result = [i \in 1..Len(transactions) |->
                                                PaynetStatementItem(transactions[i])]])

handleChangePassword(p) ==
  /\ pc[p] = "pn_password"
  /\ UNCHANGED <<store, now, completedOk, cancelledOk>>
  /\ IF ~Truthy(req[p].password)
       THEN Done(p, PaynetError(PAYNET_MISSING_PARAMS))
     ELSE IF "onPasswordChangeRequested" \in run.optional
       THEN \/ PaynetThrow(p)
            \/ Done(p, [createPaynetSuccess(0, Null) EXCEPT !.result = <<"success">>])
     ELSE Done(p, [createPaynetSuccess(0, Null) EXCEPT !.result = <<"success">>])

PaynetQuery(p) ==
  \/ PaynetQueryReceive(p)
  \/ PaynetGetStatement(p)
  \/ handleChangePassword(p)

NextCreate == \E p \in Procs : createPayment(p) \/ Reply(p)

SpecCreate == InitCreate /\ [][NextCreate]_vars

Next ==
  \E p \in Procs :
    createPayment(p) \/ Payme(p) \/ handleClickWebhook(p) \/ handlePaynetWebhook(p)

NextSeq == Tick \/ Next \/ Reply(1) \/ Redeliver(1)

NextTwo ==
  \/ createPayment(1)
  \/ Payme(1)
  \/ Reply(1)

NextWide == Next \/ Reply(1)

NextResolve ==
  \/ createPayment(1)
  \/ handleClickWebhook(1)
  \/ Reply(1)

SpecResolve == InitResolve /\ [][NextResolve]_vars

NextQuery == NextWide \/ PaymeQuery(1) \/ PaynetQuery(1)

SpecQuery == InitQuery /\ [][NextQuery]_vars

(* The answer in resp[p] tells the provider that the webhook failed inside *)
(* the merchant: the provider's internal-error code, or no answer at all   *)
(* where the exception left the handler.                                   *)
AnsweredInternalError(p) ==
  \/ req[p].kind = "payme" /\ resp[p].code = PAYME_INTERNAL_ERROR
  \/ req[p].kind = "click" /\ resp[p].code = CLICK_INTERNAL_ERROR
  \/ req[p].kind = "paynet" /\ (resp[p].code = PAYNET_INTERNAL_ERROR \/ resp[p].thrown # <<>>)

(* A provider that got an internal error delivers the webhook again.       *)
RedeliverAfterError(p) == AnsweredInternalError(p) /\ Redeliver(p)

ReplyFinal(p) == ~AnsweredInternalError(p) /\ Reply(p)

(* An invocation that is suspended at an await is resumed.                 *)
Resume(p) == pc[p] \notin {"idle", "reply"} /\ Next

(* Clients and providers keep sending requests.                            *)
Arrive(p) == pc[p] = "idle" /\ Next

NextLive == Next \/ ReplyFinal(1) \/ RedeliverAfterError(1)

Spec == Init /\ [][Next]_vars

SpecLive ==
  /\ InitLive
  /\ [][NextLive]_vars
  /\ WF_vars(Resume(1))
  /\ WF_vars(RedeliverAfterError(1))
  /\ WF_vars(ReplyFinal(1))
  /\ WF_vars(Arrive(1))

SpecWide == InitWide /\ [][NextWide]_vars

SpecConfig == InitConfig /\ [][NextWide]_vars

SpecTwo == InitTwo /\ [][NextTwo]_vars

SpecSeq == InitSeq /\ [][NextSeq]_vars
(* ---------------------------------------------------------------------- *)
(* Properties                                                              *)
(* ---------------------------------------------------------------------- *)
Statuses(st) == {i \in TxIds : store[i].status = st}

(* The invocation slot that takes the step.                                *)
Steps(p) == pc'[p] # pc[p]

(* C1 (under Spec, invocations interleaved): every change of a stored      *)
(* status is PENDING->PREPARED, PREPARED->COMPLETED, COMPLETED->FAILED,     *)
(* PENDING->FAILED or PREPARED->FAILED; in particular there is no           *)
(* PENDING->COMPLETED step and no step out of FAILED, so COMPLETED->FAILED  *)
(* happens at most once.                                                    *)
C1_StatusTransitions ==
  [][\A i \in TxIds :
       (Exists(i) /\ store'[i].status # store[i].status) =>
         <<store[i].status, store'[i].status>> \in
           {<<"PENDING", "PREPARED">>, <<"PREPARED", "COMPLETED">>,
            <<"COMPLETED", "FAILED">>, <<"PENDING", "FAILED">>,
            <<"PREPARED", "FAILED">>}]_vars

(* C2 (under SpecSeq, with redeliveries): for every transaction,            *)
(* onPaymentCompleted returns successfully at most once and                 *)
(* onPaymentCancelled returns successfully at most once.                    *)
C2_CallbacksAtMostOnce ==
  \A i \in TxIds : completedOk[i] <= 1 /\ cancelledOk[i] <= 1

(* C3 (under SpecSeq): Provider A idempotence.  When a Create, Perform or   *)
(* Cancel request that was answered with success is delivered again and no  *)
(* collaborator throws during the replay, the replay returns the same       *)
(* response, applies no store write and invokes no callback; so over the   *)
(* first call and its replays each callback returns at most once.          *)
C3_PaymeReplayIdempotent ==
  [][\A p \in Procs :
       (/\ redelivery[p]
        /\ req[p].kind = "payme"
        /\ resp[p].http = 200 /\ resp[p].code = 0
        /\ pc[p] # "reply" /\ pc'[p] = "reply"
        /\ "threw" \notin cbs'[p])
       => /\ resp'[p] = resp[p]
          /\ cbs'[p] = {}
          /\ store' = store]_vars

(* A successful PerformTransaction was delivered again and answered        *)
(* without a callback or a write.                                          *)
C3_Witness ==
  /\ pc[1] = "reply" /\ redelivery[1]
  /\ req[1].kind = "payme" /\ req[1].method = "PerformTransaction"
  /\ resp[1].code = 0 /\ resp[1].state = PAYME_COMPLETED
  /\ cbs[1] = {}
  /\ completedOk[resp[1].tx] = 1

(* C4 (under SpecSeq): callback-before-persist for completion.  A store     *)
(* write of status COMPLETED is made by an invocation in which              *)
(* onPaymentCompleted has already returned, and when onPaymentCompleted     *)
(* throws the stored status is the status the invocation read and the       *)
(* handler returns its internal-error response.                             *)
C4_CallbackBeforePersist ==
  [][/\ \A i \in TxIds :
          (store[i].status # "COMPLETED" /\ store'[i].status = "COMPLETED") =>
            \E p \in Procs : Steps(p) /\ "completed" \in cbs[p]
     /\ \A p \in Procs :
          (/\ pc[p] \in {"pm_perform_cb", "ck_complete_cb", "pn_perform_cb"}
           /\ Steps(p)
           /\ completedOk' = completedOk)
          => /\ store'[loc[p].id].status = loc[p].status
             /\ resp'[p].http = 200
             /\ resp'[p].code \in {PAYME_INTERNAL_ERROR, CLICK_INTERNAL_ERROR,
                                   PAYNET_INTERNAL_ERROR}]_vars

(* C5 (under SpecSeq): revoke ordering.  A store write that takes a         *)
(* transaction from COMPLETED to FAILED is made by an invocation in which   *)
(* onPaymentCancelled has already returned, and when onPaymentCancelled     *)
(* throws the stored status stays COMPLETED and the handler returns its     *)
(* internal-error response.                                                 *)
C5_RevokeOrdering ==
  [][/\ \A i \in TxIds :
          (store[i].status = "COMPLETED" /\ store'[i].status = "FAILED") =>
            \E p \in Procs : Steps(p) /\ "cancelled" \in cbs[p]
     /\ \A p \in Procs :
          (/\ pc[p] \in {"pm_cancel_cb", "pn_cancel_cb"}
           /\ Steps(p)
           /\ cancelledOk' = cancelledOk)
          => /\ store'[loc[p].id].status = "COMPLETED"
             /\ resp'[p].http = 200
             /\ resp'[p].code \in {PAYME_INTERNAL_ERROR, PAYNET_INTERNAL_ERROR}]_vars

InternalError(kind) ==
  CASE kind = "payme" -> PAYME_INTERNAL_ERROR
    [] kind = "click" -> CLICK_INTERNAL_ERROR
    [] kind = "paynet" -> PAYNET_INTERNAL_ERROR
    [] OTHER -> Null

(* C6 (under SpecSeq): when a store operation or a callback throws during   *)
(* a webhook invocation, the handler does not throw but answers HTTP 200    *)
(* with its protocol's internal error (A -32400, B -7, C -32603), and the   *)
(* invocation has applied no store write.                                   *)
C6_CollaboratorFailure ==
  \A p \in Procs :
    (/\ pc[p] = "reply"
     /\ req[p].kind \in {"payme", "click", "paynet"}
     /\ "threw" \in cbs[p])
    => /\ resp[p].http = 200
       /\ resp[p].code = InternalError(req[p].kind)
       /\ "write" \notin cbs[p]

(* C7 (under SpecCreate, two createPayment calls interleaved): the calls    *)
(* return the same transaction id and the store never holds two PENDING     *)
(* transactions for the (userId, planId).                                   *)
C7_ConcurrentCreate ==
  /\ \A p, q \in Procs :
       (/\ pc[p] = "reply" /\ pc[q] = "reply"
        /\ resp[p].http = 200 /\ resp[q].http = 200)
       => resp[p].tx = resp[q].tx
  /\ Cardinality({i \in Statuses("PENDING") :
                    store[i].userId = UserId /\ store[i].planId = PlanId}) <= 1

(* The PENDING transactions of the (userId, planId).                       *)
PendingOf(userId, planId) ==
  {i \in Statuses("PENDING") : store[i].userId = userId /\ store[i].planId = planId}

(* C8 (under SpecTwo, calls one after another): at most one PENDING         *)
(* transaction exists per (userId, planId), and a createPayment for a       *)
(* (userId, planId) that has a PENDING transaction creates no transaction   *)
(* and returns that transaction's id.                                       *)
C8_SequentialReuse ==
  /\ [](Cardinality(PendingOf(UserId, PlanId)) <= 1)
  /\ [][\A p \in Procs :
          (/\ pc[p] \in {"cp_find", "cp_write"}
           /\ PendingOf(UserId, PlanId) # {})
          => /\ \A i \in TxIds : Exists(i)' = Exists(i)
             /\ (pc'[p] = "reply" /\ resp'[p].http = 200)
                  => resp'[p].tx \in PendingOf(UserId, PlanId)]_vars

(* A second transaction exists, and a createPayment has returned the        *)
(* PENDING one without creating any.                                        *)
C8_Witness ==
  /\ pc[1] = "reply" /\ req[1].kind = "create"
  /\ resp[1].http = 200
  /\ "created" \notin cbs[1]
  /\ Cardinality({i \in TxIds : Exists(i)}) = 2
  /\ resp[1].tx \in PendingOf(UserId, PlanId)

(* C9 (under SpecSeq): once providerTransactionId is non-null no handler    *)
(* writes a different value to it, except Provider A CreateTransaction      *)
(* replacing a PREPARED preparation older than 12 hours.                    *)
C9_ProviderIdImmutable ==
  [][\A i \in TxIds :
       (/\ Truthy(store[i].providerTransactionId)
        /\ store'[i].providerTransactionId # store[i].providerTransactionId)
       => /\ \E p \in Procs : pc[p] = "pm_create_write" /\ Steps(p)
          /\ store[i].status = "PREPARED"
          /\ Truthy(store[i].providerCreateTime)
          /\ now - store[i].providerCreateTime > 12 * 60 * 60 * 1000]_vars

(* Provider A CreateTransaction with external id E2 meets an order that     *)
(* carries a different external id, with a matching amount.                 *)
C10_Case(p) ==
  /\ req[p].kind = "payme" /\ req[p].method = "CreateTransaction"
  /\ Exists(req[p].order)
  /\ store[req[p].order].amount = req[p].amount
  /\ Truthy(store[req[p].order].providerTransactionId)
  /\ store[req[p].order].providerTransactionId # req[p].id

(* The preparation is PREPARED and more than 12 hours old.                 *)
C10_Expired(tx) ==
  /\ tx.status = "PREPARED"
  /\ Truthy(tx.providerCreateTime)
  /\ now - tx.providerCreateTime > 12 * 60 * 60 * 1000

(* C10 (under SpecSeq, no store operation throwing): in that case, if the   *)
(* transaction is PREPARED and its providerCreateTime is more than 12       *)
(* hours before now, one store write replaces the external id and the       *)
(* create time with E2 and the request's time, the status stays PREPARED    *)
(* and state CREATED (1) is returned; otherwise the order-already-paid      *)
(* error is returned and no field of the transaction changes.              *)
C10_ExpiryReplace ==
  [][\A p \in Procs :
       (C10_Case(p) /\ Steps(p) /\ "threw" \notin cbs'[p]) =>
         LET tx == store[req[p].order] IN
         /\ (pc[p] = "pm_create" /\ C10_Expired(tx))
              => pc'[p] = "pm_create_write" /\ store' = store
         /\ (pc[p] = "pm_create" /\ ~C10_Expired(tx))
              => /\ pc'[p] = "reply"
                 /\ resp'[p] = PaymeError(req[p].rpc, PAYME_ORDER_ALREADY_PAID)
                 /\ store' = store
         /\ pc[p] = "pm_create_write"
              => /\ store' = [store EXCEPT ![tx.id] =
                               [tx EXCEPT !.providerTransactionId = req[p].id,
                                          !.providerCreateTime = req[p].time,
                                          !.updatedAt = now]]
                 /\ store'[tx.id].status = "PREPARED"
                 /\ pc'[p] = "reply"
                 /\ resp'[p] = createPaymeSuccess(req[p].rpc, PAYME_CREATED, req[p].time, tx.id)]_vars

(* An expired preparation was replaced: the new external id is stored and  *)
(* CREATED was returned.                                                    *)
C10_Witness ==
  /\ pc[1] = "reply"
  /\ req[1].kind = "payme" /\ req[1].method = "CreateTransaction"
  /\ {"expired", "write"} \subseteq cbs[1]
  /\ resp[1].code = 0 /\ resp[1].state = PAYME_CREATED
  /\ store[resp[1].tx].providerTransactionId = req[1].id
  /\ store[resp[1].tx].status = "PREPARED"

(* C11 (under SpecSeq, where no collaborator fails in the invocation):     *)
(* Payme CancelTransaction on a COMPLETED transaction goes from the read    *)
(* to onPaymentCancelled, which returns once, then to the write, which      *)
(* stores FAILED with the cancel time the handler took and the request's    *)
(* reason and leaves the callback count alone, and answers with state -2    *)
(* and that cancel time.                                                    *)
C11_CancelAfterComplete ==
  [][/\ (pc[1] = "pm_cancel" /\ pc'[1] \in {"pm_cancel_cb", "pm_cancel_write"})
         => LET tx == getTransactionByProviderId("payme", req[1].id)
            IN /\ (tx.status = "COMPLETED") = (pc'[1] = "pm_cancel_cb")
               /\ "cancelled" \notin cbs'[1]
               /\ cancelledOk' = cancelledOk
     /\ (pc[1] = "pm_cancel_cb" /\ pc'[1] = "pm_cancel_write")
         => /\ loc[1].status = "COMPLETED"
            /\ cancelledOk' = [cancelledOk EXCEPT ![loc[1].id] = @ + 1]
            /\ store' = store
            /\ loc' = loc
     /\ (pc[1] = "pm_cancel_write" /\ loc[1].status = "COMPLETED"
           /\ pc'[1] = "reply" /\ "threw" \notin cbs'[1])
         => /\ "cancelled" \in cbs[1]
            /\ cancelledOk' = cancelledOk
            /\ store'[loc[1].id].status = "FAILED"
            /\ store'[loc[1].id].providerCancelTime = now
            /\ store'[loc[1].id].cancelReason = req[1].reason
            /\ resp'[1].http = 200
            /\ resp'[1].code = 0
            /\ resp'[1].state = PAYME_CANCELLED_AFTER_COMPLETE
            /\ resp'[1].time = now
            /\ resp'[1].tx = loc[1].id]_vars

(* A COMPLETED transaction with its perform time was cancelled: FAILED is   *)
(* stored, the callback returned in this invocation, the answer is -2.      *)
C11_Witness ==
  /\ pc[1] = "reply"
  /\ req[1].kind = "payme"
  /\ req[1].method = "CancelTransaction"
  /\ {"cancelled", "write"} \subseteq cbs[1]
  /\ ~redelivery[1]
  /\ resp[1].state = PAYME_CANCELLED_AFTER_COMPLETE
  /\ \E i \in TxIds : /\ store[i].status = "FAILED"
                       /\ Truthy(store[i].providerPerformTime)
                       /\ store[i].cancelReason = 3

(* C12 (under SpecWide, where the store read does not throw): Paynet        *)
(* CheckTransaction answers HTTP 200 with a result envelope and writes      *)
(* nothing and calls nothing; transactionState is NOT_FOUND(3) when no      *)
(* Paynet transaction carries the transactionId, SUCCESS(1) when the one    *)
(* found is COMPLETED, PENDING or PREPARED, CANCELLED(2) when it is FAILED. *)
C12_CheckTransaction ==
  [][(pc[1] = "pn_check" /\ "threw" \notin cbs'[1])
       => LET tx == getTransactionByProviderId("paynet", req[1].id)
          IN /\ pc'[1] = "reply"
             /\ store' = store
             /\ completedOk' = completedOk
             /\ cancelledOk' = cancelledOk
             /\ cbs'[1] = {}
             /\ resp'[1].http = 200
             /\ resp'[1].code = 0
             /\ tx = NoTx => resp'[1].state = PAYNET_NOT_FOUND
             /\ tx.status \in {"COMPLETED", "PENDING", "PREPARED"}
                  => resp'[1].state = PAYNET_SUCCESS
             /\ tx.status = "FAILED" => resp'[1].state = PAYNET_CANCELLED
             /\ mapToPaynetState("PENDING") = PAYNET_SUCCESS]_vars

(* CheckTransaction was answered NOT_FOUND in a result envelope while a    *)
(* Paynet transaction exists under another id.                              *)
C12_Witness ==
  /\ pc[1] = "reply"
  /\ req[1].kind = "paynet"
  /\ req[1].method = "CheckTransaction"
  /\ resp[1].http = 200
  /\ resp[1].state = PAYNET_NOT_FOUND
  /\ \E i \in TxIds : Exists(i) /\ store[i].provider = "paynet"

(* C13 (under SpecWide): an invocation of the Paynet handler ends with      *)
(* HTTP 401 exactly when verifyPaynetAuth rejects its Authorization header, *)
(* then without a store write or a callback, and with HTTP 200 in every     *)
(* other case.                                                              *)
C13_PaynetHttpStatus ==
  (pc[1] = "reply" /\ req[1].kind = "paynet")
    => LET denied == ~verifyPaynetAuth(Username, Password, req[1].auth)
       IN /\ (resp[1].http = 401) = denied
          /\ denied => cbs[1] = {}
          /\ ~denied => resp[1].http = 200

(* C14 (under SpecWide): every invocation of the Payme handler ends with    *)
(* HTTP 200; when the Authorization header is missing, is not Basic, or     *)
(* its credential is not the login "Paycom", a colon and exactly the        *)
(* secret key, the answer is insufficient-privileges (-32504) with id 0     *)
(* and the invocation wrote nothing and called nothing.                     *)
C14_PaymeAuth ==
  (pc[1] = "reply" /\ req[1].kind = "payme")
    => LET h == req[1].auth
           right == /\ h.scheme = "Basic"
                    /\ Len(h.parts) >= 2
                    /\ h.parts[1] = "Paycom"
                    /\ Tail(h.parts) = <<SecretKey>>
       IN /\ resp[1].http = 200
          /\ ~right => /\ resp[1].code = PAYME_INSUFFICIENT_PRIVILEGES
                       /\ resp[1].rpc = 0
                       /\ cbs[1] = {}

(* C15 (under SpecWide): a Click request whose sign_string is not the MD5   *)
(* of click_trans_id, service_id, the secret key, merchant_trans_id, the    *)
(* prepare id when action = 1, amount, action and sign_time is answered     *)
(* with error -1, and its invocation wrote nothing and called nothing.      *)
C15_ClickSignature ==
  (/\ pc[1] = "reply"
   /\ req[1].kind = "click"
   /\ req[1].sign # md5(ClickSignSource(SecretKey, req[1], req[1].action = 1)))
    => /\ resp[1].code = CLICK_SIGN_CHECK_FAILED
       /\ cbs[1] = {}

(* The transaction the Click handler resolves in the step it is about to    *)
(* take: by id first, by short id after that found nothing.                 *)
C_ClickTx ==
  IF pc[1] = "ck_find" THEN getTransactionById(req[1].order)
  ELSE IF pc[1] = "ck_find2" THEN getTransactionByShortId(req[1].order)
  ELSE NoTx

(* The request is correctly signed, carries no negative error field and     *)
(* its amount is within one tiyin of the stored amount of tx.               *)
C_ClickAccepted(tx) ==
  /\ req[1].sign = md5(ClickSignSource(SecretKey, req[1], req[1].action = 1))
  /\ req[1].error >= 0
  /\ Abs(clickAmountTiyin(req[1].amount) - tx.amount) <= 1

(* C16 (under SpecWide, where the store does not throw in the invocation):  *)
(* Click Prepare with a valid signature, no negative error field and an     *)
(* accepted amount answers -4 on a COMPLETED and -9 on a FAILED             *)
(* transaction and changes nothing; on a PENDING or PREPARED transaction    *)
(* its one write stores PREPARED with the provider's transaction id and it  *)
(* answers error 0 with merchant_prepare_id = the internal id; no callback  *)
(* returns in any case.                                                     *)
C16_ClickPrepare ==
  [][/\ (/\ C_ClickTx # NoTx
         /\ C_ClickAccepted(C_ClickTx)
         /\ req[1].action = 0
         /\ "threw" \notin cbs'[1])
         => /\ store' = store
            /\ completedOk' = completedOk
            /\ cancelledOk' = cancelledOk
            /\ cbs'[1] = {}
            /\ C_ClickTx.status = "COMPLETED"
                 => pc'[1] = "reply" /\ resp'[1].code = CLICK_ALREADY_PAID
            /\ C_ClickTx.status = "FAILED"
                 => pc'[1] = "reply" /\ resp'[1].code = CLICK_TRANSACTION_CANCELLED
            /\ C_ClickTx.status \in {"PENDING", "PREPARED"}
                 => pc'[1] = "ck_prepare_write" /\ loc'[1].id = C_ClickTx.id
     /\ (pc[1] = "ck_prepare_write" /\ "threw" \notin cbs'[1])
         => /\ pc'[1] = "reply"
            /\ store' = [store EXCEPT ![loc[1].id] =
                           [@ EXCEPT !.status = "PREPARED",
                                     !.providerTransactionId = req[1].id,
                                     !.updatedAt = store'[loc[1].id].updatedAt]]
            /\ completedOk' = completedOk
            /\ cancelledOk' = cancelledOk
            /\ cbs'[1] = {"write"}
            /\ resp'[1].http = 200
            /\ resp'[1].code = CLICK_SUCCESS
            /\ resp'[1].tx = loc[1].id]_vars

(* A Prepare on a PENDING transaction was answered: PREPARED is stored      *)
(* with the provider's id and the answer carries the internal id.           *)
C16_Witness ==
  /\ pc[1] = "reply"
  /\ req[1].kind = "click"
  /\ req[1].action = 0
  /\ cbs[1] = {"write"}
  /\ resp[1].code = CLICK_SUCCESS
  /\ \E i \in TxIds : /\ store[i].status = "PREPARED"
                       /\ store[i].providerTransactionId = req[1].id
                       /\ resp[1].tx = i

(* C17 (under SpecWide, where neither the store nor the callback throws in  *)
(* the invocation): Click Complete with a valid signature, no negative      *)
(* error field and an accepted amount answers -6 when merchant_prepare_id   *)
(* is not the internal id, whatever the status, and changes and calls       *)
(* nothing; otherwise it answers error 0 on a COMPLETED transaction and -9  *)
(* on a FAILED one, again changing and calling nothing, and on any other    *)
(* status onPaymentCompleted returns once, then the one write stores        *)
(* COMPLETED with the provider's id, and the answer is error 0 with         *)
(* merchant_confirm_id = the internal id.                                   *)
C17_ClickComplete ==
  [][/\ (/\ C_ClickTx # NoTx
         /\ C_ClickAccepted(C_ClickTx)
         /\ req[1].action = 1
         /\ "threw" \notin cbs'[1])
         => /\ store' = store
            /\ completedOk' = completedOk
            /\ cancelledOk' = cancelledOk
            /\ cbs'[1] = {}
            /\ req[1].prepareId # C_ClickTx.id
                 => pc'[1] = "reply" /\ resp'[1].code = CLICK_ID_MISMATCH
            /\ (req[1].prepareId = C_ClickTx.id /\ C_ClickTx.status = "COMPLETED")
                 => /\ pc'[1] = "reply"
                    /\ resp'[1].code = CLICK_SUCCESS
                    /\ resp'[1].tx = C_ClickTx.id
            /\ (req[1].prepareId = C_ClickTx.id /\ C_ClickTx.status = "FAILED")
                 => pc'[1] = "reply" /\ resp'[1].code = CLICK_TRANSACTION_CANCELLED
            /\ (req[1].prepareId = C_ClickTx.id
                  /\ C_ClickTx.status \in {"PENDING", "PREPARED"})
                 => pc'[1] = "ck_complete_cb" /\ loc'[1].id = C_ClickTx.id
     /\ (pc[1] = "ck_complete_cb" /\ "threw" \notin cbs'[1])
         => /\ pc'[1] = "ck_complete_write"
            /\ store' = store
            /\ completedOk' = [completedOk EXCEPT ![loc[1].id] = @ + 1]
            /\ cancelledOk' = cancelledOk
            /\ cbs'[1] = {"completed"}
            /\ loc' = loc
     /\ (pc[1] = "ck_complete_write" /\ "threw" \notin cbs'[1])
         => /\ pc'[1] = "reply"
            /\ store' = [store EXCEPT ![loc[1].id] =
                           [@ EXCEPT !.status = "COMPLETED",
                                     !.providerTransactionId = req[1].id,
                                     !.updatedAt = store'[loc[1].id].updatedAt]]
            /\ completedOk' = completedOk
            /\ cancelledOk' = cancelledOk
            /\ cbs'[1] = {"completed", "write"}
            /\ resp'[1].http = 200
            /\ resp'[1].code = CLICK_SUCCESS
            /\ resp'[1].tx = loc[1].id]_vars

(* A Complete with the right prepare id was answered: the callback          *)
(* returned, COMPLETED is stored, the answer carries the internal id.       *)
C17_Witness ==
  /\ pc[1] = "reply"
  /\ req[1].kind = "click"
  /\ req[1].action = 1
  /\ cbs[1] = {"completed", "write"}
  /\ resp[1].code = CLICK_SUCCESS
  /\ \E i \in TxIds : /\ store[i].status = "COMPLETED"
                       /\ req[1].prepareId = i
                       /\ resp[1].tx = i
                       /\ completedOk[i] = 1

(* C18 (under SpecWide, where the store does not throw in the invocation):  *)
(* a correctly signed Click request that resolves to a transaction and      *)
(* carries a negative error field makes the stored status FAILED and is     *)
(* answered -9, whatever the status, the action and the amount.             *)
C18_ClickExternalCancel ==
  [][/\ (/\ C_ClickTx # NoTx
         /\ req[1].sign = md5(ClickSignSource(SecretKey, req[1], req[1].action = 1))
         /\ req[1].error < 0
         /\ "threw" \notin cbs'[1])
         => /\ pc'[1] = "ck_cancel_write"
            /\ loc'[1].id = C_ClickTx.id
            /\ store' = store
     /\ (pc[1] = "ck_cancel_write" /\ "threw" \notin cbs'[1])
         => /\ pc'[1] = "reply"
            /\ req[1].error < 0
            /\ store'[loc[1].id].status = "FAILED"
            /\ \A i \in TxIds \ {loc[1].id} : store'[i] = store[i]
            /\ resp'[1].http = 200
            /\ resp'[1].code = CLICK_TRANSACTION_CANCELLED]_vars

(* A Complete with a negative error field and an amount far from the        *)
(* stored one was answered -9 and the transaction, COMPLETED before, is     *)
(* FAILED.                                                                  *)
C18_Witness ==
  /\ pc[1] = "reply"
  /\ req[1].kind = "click"
  /\ req[1].error < 0
  /\ req[1].action = 1
  /\ resp[1].code = CLICK_TRANSACTION_CANCELLED
  /\ \E i \in TxIds : /\ store[i].status = "FAILED"
                       /\ completedOk[i] > 0
                       /\ Abs(clickAmountTiyin(req[1].amount) - store[i].amount) > 1

(* The integer nearest to amount * 100, for an amount in thousandths of a   *)
(* UZS that is not at a half tiyin.                                         *)
C19_Nearest(amount) ==
  CHOOSE n \in -1..((amount * TIYIN_PER_UZS) \div MILLI_PER_UZS + 1) :
    /\ 2 * n * MILLI_PER_UZS - MILLI_PER_UZS <= 2 * amount * TIYIN_PER_UZS
    /\ 2 * amount * TIYIN_PER_UZS < 2 * n * MILLI_PER_UZS + MILLI_PER_UZS

(* The step in which the Click handler, having resolved a transaction for   *)
(* a request without a negative error field, makes its amount check.        *)
C19_Checks ==
  /\ C_ClickTx # NoTx
  /\ req[1].error >= 0
  /\ "threw" \notin cbs'[1]

(* The step answers -2 and neither writes nor calls.                        *)
C19_Refused ==
  /\ pc'[1] = "reply"
  /\ resp'[1].code = CLICK_INVALID_AMOUNT
  /\ store' = store
  /\ completedOk' = completedOk
  /\ cancelledOk' = cancelledOk
  /\ cbs'[1] = {}

(* C19 as stated (under SpecWide): the amount check passes exactly when     *)
(* |amount * 100 - stored amount| <= 1 in exact arithmetic, and answers -2  *)
(* without a write or a callback otherwise.                                 *)
C19_ExactTolerance ==
  [][C19_Checks
       => LET exact == req[1].amount * TIYIN_PER_UZS - C_ClickTx.amount * MILLI_PER_UZS
          IN IF Abs(exact) <= MILLI_PER_UZS
             THEN resp'[1].code # CLICK_INVALID_AMOUNT
             ELSE C19_Refused]_vars

(* C19 amended (under SpecWide): the amount check passes exactly when       *)
(* |round(amount * 100) - stored amount| <= 1, the product rounded to the   *)
(* nearest tiyin, and answers -2 without a write or a callback otherwise.   *)
C19_RoundedTolerance ==
  [][C19_Checks
       => IF Abs(C19_Nearest(req[1].amount) - C_ClickTx.amount) <= 1
          THEN resp'[1].code # CLICK_INVALID_AMOUNT
          ELSE C19_Refused]_vars

(* A Prepare whose amount is 1.4 tiyin above the stored amount passed the   *)
(* check and was answered with error 0.                                     *)
C19_Witness ==
  /\ pc[1] = "reply"
  /\ req[1].kind = "click"
  /\ req[1].action = 0
  /\ req[1].error = 0
  /\ resp[1].code = CLICK_SUCCESS
  /\ \E i \in TxIds :
       /\ resp[1].tx = i
       /\ req[1].amount * TIYIN_PER_UZS - store[i].amount * MILLI_PER_UZS > MILLI_PER_UZS

(* The stored amount Paynet PerformTransaction compares with in the step    *)
(* it is about to take (Null when that step makes no amount check).         *)
C20_Stored ==
  LET tx == getTransactionByShortId(req[1].order)
  IN IF pc[1] = "pn_perform" /\ tx # NoTx /\ tx.provider = "paynet" THEN tx.amount
     ELSE IF pc[1] = "pn_perform_backfill" THEN loc[1].amount
     ELSE Null

(* C20 (under SpecWide, where the store does not throw in the invocation):  *)
(* Paynet PerformTransaction goes on to the COMPLETED write only with an    *)
(* amount equal to the stored amount in tiyin; with any other amount, one   *)
(* tiyin more or less included, it answers invalid-amount (413), no status  *)
(* changes and onPaymentCompleted is not called.                            *)
C20_PaynetExactAmount ==
  [][/\ (Truthy(C20_Stored) /\ "threw" \notin cbs'[1]
           /\ req[1].amount # C20_Stored)
         => /\ pc'[1] = "reply"
            /\ resp'[1].http = 200
            /\ resp'[1].code = PAYNET_INVALID_AMOUNT
            /\ \A i \in TxIds : store'[i].status = store[i].status
            /\ completedOk' = completedOk
            /\ "completed" \notin cbs'[1]
     /\ (pc[1] # "pn_perform_write" /\ pc'[1] = "pn_perform_write")
         => /\ Truthy(C20_Stored)
            /\ req[1].amount = C20_Stored]_vars

(* A PerformTransaction with one tiyin more than the stored amount was      *)
(* answered invalid-amount and the transaction is still PENDING.            *)
C20_Witness ==
  /\ pc[1] = "reply"
  /\ req[1].kind = "paynet"
  /\ req[1].method = "PerformTransaction"
  /\ resp[1].code = PAYNET_INVALID_AMOUNT
  /\ \E i \in TxIds : /\ store[i].shortId = req[1].order
                       /\ req[1].amount = store[i].amount + 1
                       /\ store[i].status = "PENDING"
                       /\ completedOk[i] = 0

(* C21 (under SpecWide, where neither the store nor the callback throws in  *)
(* the invocation): Paynet PerformTransaction with the stored amount        *)
(* answers transaction-exists (201) on a COMPLETED and                      *)
(* transaction-cancelled (202) on a FAILED transaction, with no status      *)
(* change and no callback; on a PENDING or PREPARED transaction             *)
(* onPaymentCompleted returns once, and only then COMPLETED is stored with  *)
(* the provider's transaction id, and the result carries the internal id.   *)
C21_PaynetPerform ==
  [][/\ (Truthy(C20_Stored) /\ "threw" \notin cbs'[1]
           /\ req[1].amount = C20_Stored)
         => LET st == IF pc[1] = "pn_perform"
                      THEN getTransactionByShortId(req[1].order).status
                      ELSE loc[1].status
            IN /\ \A i \in TxIds : store'[i].status = store[i].status
               /\ completedOk' = completedOk
               /\ st = "COMPLETED"
                    => pc'[1] = "reply" /\ resp'[1].code = PAYNET_TRANSACTION_EXISTS
               /\ st = "FAILED"
                    => pc'[1] = "reply" /\ resp'[1].code = PAYNET_TRANSACTION_CANCELLED
               /\ st \in {"PENDING", "PREPARED"} => pc'[1] # "reply"
     /\ \A i \in TxIds :
          (/\ pc[1] \in {"pn_perform", "pn_perform_backfill", "pn_perform_write",
                          "pn_perform_cb"}
           /\ store[i].status # "COMPLETED"
           /\ store'[i].status = "COMPLETED")
          => /\ "completed" \in cbs[1]
             /\ completedOk[i] = 1
             /\ store'[i].providerTransactionId = req[1].id
     /\ (req[1].kind = "paynet" /\ req[1].method = "PerformTransaction"
           /\ pc[1] # "reply" /\ pc'[1] = "reply"
           /\ resp'[1].http = 200 /\ resp'[1].code = 0)
         => /\ store'[resp'[1].tx].status = "COMPLETED"
            /\ store'[resp'[1].tx].providerTransactionId = req[1].id
            /\ store'[resp'[1].tx].shortId = req[1].order
            /\ completedOk'[resp'[1].tx] = 1]_vars

(* C22 (under SpecWide, where neither the store nor getUserInfo throws in   *)
(* the invocation): Paynet GetInformation answers client-not-found (302)    *)
(* when the shortId resolves to no transaction or to one that is PREPARED,  *)
(* COMPLETED or FAILED, and goes on to its success result only for a        *)
(* PENDING one; no step of GetInformation changes a stored status or calls  *)
(* onPaymentCompleted or onPaymentCancelled.                                *)
C22_GetInformation ==
  [][/\ (pc[1] = "pn_info" /\ "threw" \notin cbs'[1])
         => LET tx == getTransactionByShortId(req[1].order)
            IN IF tx.status = "PENDING"
               THEN pc'[1] \in {"pn_info_backfill", "pn_info_user"}
               ELSE /\ pc'[1] = "reply"
                    /\ resp'[1].http = 200
                    /\ resp'[1].code = PAYNET_CLIENT_NOT_FOUND
                    /\ store' = store
     /\ (pc[1] = "pn_info_user" /\ "threw" \notin cbs'[1])
         => /\ pc'[1] = "reply"
            /\ resp'[1].http = 200
            /\ resp'[1].code = 0
            /\ store[loc[1].id].status = "PENDING"
            /\ store[loc[1].id].shortId = req[1].order
     /\ pc[1] \in {"pn_info", "pn_info_backfill", "pn_info_user"}
         => /\ \A i \in TxIds : store'[i].status = store[i].status
            /\ completedOk' = completedOk
            /\ cancelledOk' = cancelledOk
            /\ cbs'[1] \cap {"completed", "cancelled"} = {}]_vars

(* GetInformation for the shortId of a PREPARED transaction was answered    *)
(* client-not-found.                                                        *)
C22_Witness ==
  /\ pc[1] = "reply"
  /\ req[1].kind = "paynet"
  /\ req[1].method = "GetInformation"
  /\ resp[1].code = PAYNET_CLIENT_NOT_FOUND
  /\ \E i \in TxIds : store[i].shortId = req[1].order /\ store[i].status = "PREPARED"

(* C23 (under SpecWide, where neither the store nor the callback throws in  *)
(* the invocation): Paynet CancelTransaction answers transaction-not-found  *)
(* (203) for an id no Paynet transaction carries and transaction-cancelled  *)
(* (202) for a FAILED transaction, writing and calling nothing; for a       *)
(* COMPLETED transaction onPaymentCancelled returns once before FAILED is   *)
(* stored, for a PENDING or PREPARED one it is not called; every successful *)
(* cancel answers transactionState 2 and leaves the transaction FAILED      *)
(* under the same id, so that the next CancelTransaction for that id is     *)
(* answered 202 without a callback.                                         *)
C23_PaynetCancel ==
  [][/\ (pc[1] = "pn_cancel" /\ "threw" \notin cbs'[1])
         => LET tx == getTransactionByProviderId("paynet", req[1].id)
            IN /\ store' = store
               /\ cancelledOk' = cancelledOk
               /\ completedOk' = completedOk
               /\ cbs'[1] = {}
               /\ tx = NoTx
                    => pc'[1] = "reply" /\ resp'[1].code = PAYNET_TRANSACTION_NOT_FOUND
               /\ tx.status = "FAILED"
                    => pc'[1] = "reply" /\ resp'[1].code = PAYNET_TRANSACTION_CANCELLED
               /\ tx.status = "COMPLETED" => pc'[1] = "pn_cancel_cb"
               /\ tx.status \in {"PENDING", "PREPARED"} => pc'[1] = "pn_cancel_write"
     /\ (pc[1] = "pn_cancel_cb" /\ "threw" \notin cbs'[1])
         => /\ pc'[1] = "pn_cancel_write"
            /\ loc[1].status = "COMPLETED"
            /\ store' = store
            /\ cancelledOk' = [cancelledOk EXCEPT ![loc[1].id] = @ + 1]
            /\ completedOk' = completedOk
            /\ loc' = loc
     /\ (pc[1] = "pn_cancel_write" /\ "threw" \notin cbs'[1])
         => /\ pc'[1] = "reply"
            /\ (loc[1].status = "COMPLETED") = ("cancelled" \in cbs[1])
            /\ cancelledOk' = cancelledOk
            /\ completedOk' = completedOk
            /\ store'[loc[1].id].status = "FAILED"
            /\ getTransactionByProviderId("paynet", req[1].id)' = store'[loc[1].id]
            /\ resp'[1].http = 200
            /\ resp'[1].code = 0
            /\ resp'[1].state = PAYNET_CANCELLED
            /\ resp'[1].tx = loc[1].id]_vars

(* A CancelTransaction for a transaction that was completed and then        *)
(* cancelled under the same id was answered transaction-cancelled; the      *)
(* cancellation callback has returned once in all.                          *)
C23_Witness ==
  /\ pc[1] = "reply"
  /\ req[1].kind = "paynet"
  /\ req[1].method = "CancelTransaction"
  /\ resp[1].code = PAYNET_TRANSACTION_CANCELLED
  /\ cbs[1] = {}
  /\ \E i \in TxIds : /\ store[i].status = "FAILED"
                       /\ store[i].provider = "paynet"
                       /\ store[i].providerTransactionId = req[1].id
                       /\ completedOk[i] = 1
                       /\ cancelledOk[i] = 1

(* C24 (under SpecSeq, where neither the store nor the callback throws in   *)
(* the invocation): Payme PerformTransaction on a COMPLETED transaction     *)
(* answers state 2 with the stored perform time; on a FAILED or PENDING     *)
(* one it answers cannot-perform (-31008); in both cases it writes and      *)
(* calls nothing.  On a PREPARED transaction onPaymentCompleted returns     *)
(* once, having been shown the transaction as COMPLETED, then COMPLETED is  *)
(* stored with the perform time the handler took and the answer is state 2  *)
(* with that time.                                                          *)
C24_PaymePerform ==
  [][/\ (pc[1] = "pm_perform" /\ "threw" \notin cbs'[1])
         => LET tx == getTransactionByProviderId("payme", req[1].id)
            IN /\ store' = store
               /\ completedOk' = completedOk
               /\ cancelledOk' = cancelledOk
               /\ cbs'[1] = {}
               /\ (tx.status = "COMPLETED" /\ Truthy(tx.providerPerformTime))
                    => /\ pc'[1] = "reply"
                       /\ resp'[1].code = 0
                       /\ resp'[1].state = PAYME_COMPLETED
                       /\ resp'[1].time = tx.providerPerformTime
                       /\ resp'[1].tx = tx.id
               /\ tx.status \in {"FAILED", "PENDING"}
                    => /\ pc'[1] = "reply"
                       /\ resp'[1].code = PAYME_CANNOT_PERFORM_OPERATION
               /\ tx.status = "PREPARED" => pc'[1] = "pm_perform_cb"
     /\ (pc[1] = "pm_perform_cb" /\ "threw" \notin cbs'[1])
         => /\ pc'[1] = "pm_perform_write"
            /\ loc[1].status = "PREPARED"
            /\ store' = store
            /\ completedOk' = [completedOk EXCEPT ![loc[1].id] = @ + 1]
            /\ cancelledOk' = cancelledOk
            /\ cbs'[1] = {"completed", "shownCompleted"}
            /\ loc' = loc
     /\ (pc[1] = "pm_perform_write" /\ "threw" \notin cbs'[1])
         => /\ pc'[1] = "reply"
            /\ "completed" \in cbs[1]
            /\ completedOk' = completedOk
            /\ cancelledOk' = cancelledOk
            /\ store'[loc[1].id].status = "COMPLETED"
            /\ store'[loc[1].id].providerPerformTime = now
            /\ store'[loc[1].id].providerTransactionId = req[1].id
            /\ resp'[1].http = 200
            /\ resp'[1].code = 0
            /\ resp'[1].state = PAYME_COMPLETED
            /\ resp'[1].time = now
            /\ resp'[1].tx = loc[1].id]_vars

(* A PerformTransaction delivered after the clock moved on was answered     *)
(* state 2 with the perform time stored earlier, without a callback or a    *)
(* write in that invocation.                                                *)
C24_Witness ==
  /\ pc[1] = "reply"
  /\ req[1].kind = "payme"
  /\ req[1].method = "PerformTransaction"
  /\ ~redelivery[1]
  /\ cbs[1] = {}
  /\ resp[1].state = PAYME_COMPLETED
  /\ resp[1].time < now
  /\ \E i \in TxIds : /\ store[i].status = "COMPLETED"
                       /\ store[i].providerPerformTime = resp[1].time
                       /\ completedOk[i] = 1

(* C25 (under SpecConfig, instances created with any subset of the          *)
(* provider configurations): a webhook of a provider without configuration  *)
(* throws "<provider> config not provided" in the step it arrives in, with  *)
(* the store and the callback counts unchanged, and a webhook of a          *)
(* configured provider never does; createPayment for a provider without     *)
(* configuration ends by throwing, with that same message unless a store    *)
(* call threw first, and for a configured provider never with it.           *)
C25_MissingConfig ==
  [][/\ (pc[1] = "idle" /\ pc'[1] # "idle" /\ req'[1].kind \in Providers)
         => IF req'[1].kind \in run.options
            THEN resp'[1].http # -1
            ELSE /\ pc'[1] = "reply"
                 /\ resp'[1].http = -1
                 /\ resp'[1].thrown = <<req'[1].kind, "config not provided">>
                 /\ store' = store
                 /\ completedOk' = completedOk
                 /\ cancelledOk' = cancelledOk
                 /\ cbs'[1] = {}
     /\ (pc[1] # "reply" /\ pc'[1] = "reply" /\ req'[1].kind \in Providers
           /\ req'[1].kind \in run.options)
         => resp'[1].thrown \in {<<>>, <<"Error">>}
     /\ (pc[1] # "reply" /\ pc'[1] = "reply" /\ req'[1].kind = "create")
         => IF req'[1].method \in run.options
            THEN resp'[1].thrown \in {<<>>, <<"Error">>}
            ELSE /\ resp'[1].http = -1
                 /\ resp'[1].thrown \in {<<"Error">>,
                                          <<req'[1].method, "config not provided">>}]_vars

(* A Payme webhook arrived at an instance without Payme configuration that  *)
(* holds a transaction, and threw the configuration error.                  *)
C25_Witness ==
  /\ pc[1] = "reply"
  /\ req[1].kind = "payme"
  /\ "payme" \notin run.options
  /\ resp[1].http = -1
  /\ resp[1].thrown = <<"payme", "config not provided">>
  /\ \E i \in TxIds : Exists(i)

(* C26 (under SpecTwo): in every reachable store no two distinct            *)
(* transactions that are both PENDING or PREPARED carry the same non-null   *)
(* shortId.                                                                 *)
C26_ShortIdUnique ==
  \A i, j \in TxIds :
    (/\ i # j
     /\ store[i].status \in {"PENDING", "PREPARED"}
     /\ store[j].status \in {"PENDING", "PREPARED"}
     /\ Truthy(store[i].shortId))
    => store[i].shortId # store[j].shortId

(* The amount of a payment URL in minor units: Payme's URL carries tiyin,  *)
(* Click's and Paynet's carry UZS.                                         *)
C27_UrlTiyin(provider, url) ==
  IF provider = "payme" THEN url ELSE url * TIYIN_PER_UZS

C27_Reused(tx, provider) ==
  (pc'[1] = "reply" /\ resp'[1].http = 200)
  => /\ resp'[1].tx = tx.id
     /\ store'[tx.id].amount = uzsToTiyin(req[1].amount)
     /\ C27_UrlTiyin(provider, resp'[1].url) = uzsToTiyin(req[1].amount)

(* C27 (under SpecConfig): a createPayment call that finds a PENDING       *)
(* transaction of the same user and plan with another amount returns that  *)
(* transaction's id, and when it returns the stored amount and the amount  *)
(* of the payment URL both equal the new amount in minor units, whether or *)
(* not the provider changed.                                               *)
C27_ReuseAmount ==
  [][/\ (pc[1] = "cp_find" =>
          LET tx == findPendingTransaction(UserId, PlanId)
          IN (tx # NoTx /\ tx.amount # uzsToTiyin(req[1].amount))
             => C27_Reused(tx, req[1].method))
     /\ ((pc[1] = "cp_write" /\ loc[1].id # Null
           /\ loc[1].amount # uzsToTiyin(req[1].amount))
          => C27_Reused(loc[1], req[1].method))]_vars

(* The same statement for calls that change the provider.                  *)
C27_ProviderChanged ==
  [][/\ (pc[1] = "cp_find" =>
          LET tx == findPendingTransaction(UserId, PlanId)
          IN (tx # NoTx /\ tx.amount # uzsToTiyin(req[1].amount)
              /\ tx.provider # req[1].method)
             => C27_Reused(tx, req[1].method))
     /\ ((pc[1] = "cp_write" /\ loc[1].id # Null
           /\ loc[1].amount # uzsToTiyin(req[1].amount)
           /\ loc[1].provider # req[1].method)
          => C27_Reused(loc[1], req[1].method))]_vars

(* C28 (under Spec, invocations interleaved): every step of an invocation  *)
(* that changes a stored status finds, immediately before the write, the   *)
(* status that this invocation read at its lookup; no status write lands   *)
(* on a status that another invocation changed after the lookup.           *)
C28_WriteOnStatusRead ==
  [][\A p \in Procs : \A i \in TxIds :
       (Steps(p) /\ Exists(i) /\ store'[i].status # store[i].status)
         => (loc[p].id = i /\ store[i].status = loc[p].status)]_vars

\* The webhooks that complete a payment.
C29_Completing(r) ==
  \/ r.kind = "payme" /\ r.method = "PerformTransaction"
  \/ r.kind = "click"
  \/ r.kind = "paynet" /\ r.method = "PerformTransaction"

C29_CallbackThrew ==
  /\ pc[1] = "reply"
  /\ C29_Completing(req[1])
  /\ "callbackThrew" \in cbs[1]

C29_Completed ==
  /\ pc[1] = "reply"
  /\ C29_Completing(req[1])
  /\ resp[1].http = 200 /\ resp[1].code = 0 /\ resp[1].thrown = <<>>
  /\ \E i \in TxIds : store[i].status = "COMPLETED" /\ completedOk[i] >= 1

(* C29 (under SpecLive: the provider delivers again after every internal   *)
(* error, the store and the callbacks stop throwing after finitely many    *)
(* exceptions): whenever onPaymentCompleted throws on a delivery of a      *)
(* provider's completing webhook, eventually a delivery of that webhook    *)
(* returns success with the transaction COMPLETED and onPaymentCompleted   *)
(* returned successfully.                                                  *)
C29_EventuallyCompleted == C29_CallbackThrew ~> C29_Completed

(* The same statement for Provider A and Provider B.                       *)
C29_PaymeClick ==
  (C29_CallbackThrew /\ req[1].kind # "paynet") ~> C29_Completed

(* C30 (under SpecWide): every step of a provider's handler that moves a   *)
(* transaction from COMPLETED to FAILED leaves it with a non-null          *)
(* cancelReason and a non-null providerCancelTime.                         *)
C30_CancelFieldsSet ==
  [][\A i \in TxIds :
       (store[i].status = "COMPLETED" /\ store'[i].status = "FAILED")
         => /\ Truthy(store'[i].cancelReason)
            /\ Truthy(store'[i].providerCancelTime)]_vars

(* The same statement for Provider A's handler.                            *)
C30_PaymeCancelFieldsSet ==
  [][\A i \in TxIds :
       (/\ store[i].status = "COMPLETED" /\ store'[i].status = "FAILED"
        /\ pc[1] = "pm_cancel_write")
         => /\ Truthy(store'[i].cancelReason)
            /\ Truthy(store'[i].providerCancelTime)]_vars

\* The transaction a CreateTransaction request with a matching amount is about.
C31_Order ==
  LET tx == getTransactionById(req[1].order)
  IN IF Truthy(req[1].order) /\ Truthy(req[1].id) /\ Truthy(req[1].time)
        /\ tx # NoTx /\ req[1].amount = tx.amount
     THEN tx ELSE NoTx

(* C31 (under SpecSeq): Provider A CreateTransaction with a matching       *)
(* amount.  With no external id stored: a PENDING transaction becomes       *)
(* PREPARED with the request's id and create time and the answer is state  *)
(* CREATED (1); a COMPLETED or FAILED one is answered cannot-perform and    *)
(* nothing changes.  With the request's id stored: the answer is success   *)
(* with the state mapped from the current status, and nothing is written.  *)
C31_PaymeCreate ==
  [][/\ (pc[1] = "pm_create" /\ "threw" \notin cbs'[1] /\ C31_Order # NoTx)
        => LET tx == C31_Order
           IN /\ (~Truthy(tx.providerTransactionId) /\ tx.status = "PENDING")
                   => (pc'[1] = "pm_create_write" /\ store' = store)
              /\ (~Truthy(tx.providerTransactionId)
                  /\ tx.status \in {"COMPLETED", "FAILED"})
                   => /\ pc'[1] = "reply"
                      /\ resp'[1].code = PAYME_CANNOT_PERFORM_OPERATION
                      /\ store' = store
              /\ tx.providerTransactionId = req[1].id
                   => /\ pc'[1] = "reply"
                      /\ resp'[1].code = 0
                      /\ resp'[1].tx = tx.id
                      /\ resp'[1].state =
                           (CASE tx.status \in {"PENDING", "PREPARED"} -> 1
                              [] tx.status = "COMPLETED" -> 2
                              [] tx.status = "FAILED" ->
                                   IF Truthy(tx.providerPerformTime) THEN -2 ELSE -1)
                      /\ "write" \notin cbs'[1]
                      /\ store' = store
     /\ (/\ pc[1] = "pm_create_write" /\ "threw" \notin cbs'[1]
         /\ ~Truthy(store[loc[1].id].providerTransactionId))
        => /\ pc'[1] = "reply"
           /\ resp'[1].code = 0
           /\ resp'[1].state = 1
           /\ resp'[1].tx = loc[1].id
           /\ store'[loc[1].id].status = "PREPARED"
           /\ store'[loc[1].id].providerTransactionId = req[1].id
           /\ store'[loc[1].id].providerCreateTime = req[1].time
           /\ \A i \in TxIds : i # loc[1].id => store'[i] = store[i]]_vars

(* A PENDING transaction without an external id was prepared.              *)
C31_Witness ==
  /\ pc[1] = "reply"
  /\ req[1].kind = "payme" /\ req[1].method = "CreateTransaction"
  /\ cbs[1] = {"write"}
  /\ ~redelivery[1]
  /\ resp[1].state = 1
  /\ store[req[1].order].status = "PREPARED"
  /\ store[req[1].order].providerTransactionId = req[1].id

(* C32 (under SpecSeq): Provider A CancelTransaction on a PENDING or       *)
(* PREPARED transaction stores FAILED with the cancel time and the reason, *)
(* answers state -1 and calls neither onPaymentCancelled nor               *)
(* onPaymentCompleted; on a FAILED transaction it writes nothing and       *)
(* answers the stored cancel time with state -2 if a perform time is       *)
(* stored and -1 otherwise.                                                *)
C32_PaymeCancelBeforeComplete ==
  [][/\ (pc[1] = "pm_cancel" /\ "threw" \notin cbs'[1] /\ Truthy(req[1].id)
         /\ getTransactionByProviderId("payme", req[1].id) # NoTx)
        => LET tx == getTransactionByProviderId("payme", req[1].id)
           IN /\ store' = store
              /\ completedOk' = completedOk /\ cancelledOk' = cancelledOk
              /\ tx.status \in {"PENDING", "PREPARED"}
                   => pc'[1] = "pm_cancel_write"
              /\ tx.status = "FAILED"
                   => /\ pc'[1] = "reply"
                      /\ resp'[1].code = 0
                      /\ resp'[1].tx = tx.id
                      /\ resp'[1].time =
                           (IF Truthy(tx.providerCancelTime)
                            THEN tx.providerCancelTime ELSE tx.updatedAt)
                      /\ resp'[1].state =
                           (IF Truthy(tx.providerPerformTime) THEN -2 ELSE -1)
                      /\ cbs'[1] = {}
     /\ (/\ pc[1] = "pm_cancel_write" /\ "threw" \notin cbs'[1]
         /\ loc[1].status \in {"PENDING", "PREPARED"})
        => /\ pc'[1] = "reply"
           /\ resp'[1].code = 0
           /\ resp'[1].state = -1
           /\ resp'[1].time = loc[1].time
           /\ store'[loc[1].id].status = "FAILED"
           /\ store'[loc[1].id].providerCancelTime = loc[1].time
           /\ store'[loc[1].id].cancelReason = req[1].reason
           /\ cbs'[1] = {"write"}
           /\ completedOk' = completedOk /\ cancelledOk' = cancelledOk]_vars

(* A PREPARED transaction was cancelled without a callback.                *)
C32_Witness ==
  /\ pc[1] = "reply"
  /\ req[1].kind = "payme" /\ req[1].method = "CancelTransaction"
  /\ cbs[1] = {"write"}
  /\ resp[1].state = -1
  /\ \E i \in TxIds :
       /\ store[i].status = "FAILED"
       /\ store[i].providerTransactionId = req[1].id
       /\ store[i].cancelReason = req[1].reason
       /\ ~Truthy(store[i].providerPerformTime)
       /\ cancelledOk[i] = 0

(* C33 (under SpecQuery): Provider A CheckPerformTransaction answers, in   *)
(* this order of precedence, order-not-found when the order id is missing  *)
(* or unknown, invalid-amount when the amount differs from the stored one, *)
(* cannot-perform when the transaction is FAILED, and otherwise allow      *)
(* (with the detail when getFiscalData supplies one); it never writes to   *)
(* the store.                                                              *)
C33_CheckPerform ==
  [][/\ (pc[1] = "pm_checkperform" /\ "threw" \notin cbs'[1])
        => LET tx == getTransactionById(req[1].order)
           IN /\ store' = store
              /\ IF ~Truthy(req[1].order) \/ tx = NoTx
                   THEN pc'[1] = "reply" /\ resp'[1].code = PAYME_ORDER_NOT_FOUND
                 ELSE IF req[1].amount # tx.amount
                   THEN pc'[1] = "reply" /\ resp'[1].code = PAYME_INVALID_AMOUNT
                 ELSE IF tx.status = "FAILED"
                   THEN pc'[1] = "reply" /\ resp'[1].code = PAYME_CANNOT_PERFORM_OPERATION
                 ELSE \/ pc'[1] = "pm_checkperform_fiscal"
                         /\ "getFiscalData" \in run.optional
                      \/ /\ pc'[1] = "reply"
                         /\ resp'[1].code = 0
                         /\ resp'[1].result = <<"allow">>
     /\ (pc[1] = "pm_checkperform_fiscal" /\ "threw" \notin cbs'[1])
        => /\ store' = store
           /\ pc'[1] = "reply"
           /\ resp'[1].code = 0
           /\ resp'[1].result \in {<<"allow">>, <<"allow", "detail">>}]_vars

(* A FAILED transaction was checked with another amount than the stored    *)
(* one and the answer was invalid-amount.                                  *)
C33_Witness ==
  /\ pc[1] = "reply"
  /\ req[1].kind = "payme" /\ req[1].method = "CheckPerformTransaction"
  /\ Truthy(req[1].order)
  /\ store[req[1].order].status = "FAILED"
  /\ req[1].amount # store[req[1].order].amount
  /\ resp[1].code = PAYME_INVALID_AMOUNT

\* The state and the reason Provider A is to be told for a transaction.
C34_State(tx) ==
  CASE tx.status \in {"PENDING", "PREPARED"} -> 1
    [] tx.status = "COMPLETED" -> 2
    [] tx.status = "FAILED" -> IF Truthy(tx.providerPerformTime) THEN -2 ELSE -1

C34_Reason(tx) ==
  IF C34_State(tx) = -2 THEN 5
  ELSE IF C34_State(tx) = -1
  THEN IF Truthy(tx.cancelReason) THEN tx.cancelReason ELSE 3
  ELSE Null

C34_Reported(f, tx) ==
  f.state = C34_State(tx) /\ f.reason = C34_Reason(tx)

(* C34 (under SpecQuery): a successful Provider A CheckTransaction and     *)
(* every item of a GetStatement report, for their transaction, state 1     *)
(* for PENDING/PREPARED, 2 for COMPLETED, and for FAILED -2 if a perform   *)
(* time is stored and -1 otherwise; the reason is 5 with state -2, the     *)
(* stored cancelReason (3 when none is stored) with state -1, and null     *)
(* otherwise.                                                              *)
C34_PaymeStateAndReason ==
  (pc[1] = "reply" /\ req[1].kind = "payme" /\ resp[1].code = 0) =>
    /\ req[1].method = "CheckTransaction"
         => /\ Len(resp[1].result) = 1
            /\ C34_Reported(resp[1].result[1], store[resp[1].tx])
            /\ resp[1].state = C34_State(store[resp[1].tx])
    /\ req[1].method = "GetStatement"
         => /\ {resp[1].result[k].transaction : k \in 1..Len(resp[1].result)}
                 = {i \in TxIds : Exists(i) /\ store[i].provider = "payme"}
            /\ \A k \in 1..Len(resp[1].result) :
                 C34_Reported(resp[1].result[k].format,
                              store[resp[1].result[k].transaction])

(* CheckTransaction reported a cancellation after completion whose stored  *)
(* reason is 4 with reason 5.                                              *)
C34_Witness ==
  /\ pc[1] = "reply"
  /\ req[1].kind = "payme" /\ req[1].method = "CheckTransaction"
  /\ resp[1].code = 0
  /\ resp[1].state = -2
  /\ resp[1].result[1].reason = 5
  /\ store[resp[1].tx].cancelReason = 4

\* The awaits of Provider B's handler at which a resolved transaction is held.
C35_Resolved == {"ck_cancel_write", "ck_prepare_write", "ck_complete_cb", "ck_complete_write"}

(* C35 (under SpecResolve): Provider B's handler looks the merchant        *)
(* reference up as a transaction id, and as a shortId only when no         *)
(* transaction has that id; the transaction it goes on with, and the only  *)
(* one it writes, is the one matched by id even when another carries the   *)
(* reference as shortId; when neither lookup finds one the answer is -5    *)
(* and nothing is written.                                                 *)
C35_ClickResolution ==
  [][/\ (pc[1] = "ck_find" /\ "threw" \notin cbs'[1])
        => /\ store' = store
           /\ IF getTransactionById(req[1].order) = NoTx
              THEN pc'[1] = "ck_find2"
              ELSE /\ pc'[1] # "ck_find2"
                   /\ pc'[1] \in C35_Resolved => loc'[1].id = req[1].order
     /\ (pc[1] = "ck_find2" /\ "threw" \notin cbs'[1])
        => /\ store' = store
           /\ getTransactionById(req[1].order) = NoTx
           /\ IF getTransactionByShortId(req[1].order) = NoTx
              THEN pc'[1] = "reply" /\ resp'[1].code = -5
              ELSE pc'[1] \in C35_Resolved
                     => loc'[1].id = getTransactionByShortId(req[1].order).id
     /\ pc[1] \in C35_Resolved
        => \A i \in TxIds : i # loc[1].id => store'[i] = store[i]]_vars

(* A Prepare whose reference is the id of transaction 2 and the shortId of *)
(* transaction 1 prepared transaction 2.                                   *)
C35_Witness ==
  /\ pc[1] = "reply"
  /\ req[1].kind = "click" /\ req[1].action = 0
  /\ "write" \in cbs[1]
  /\ resp[1].code = 0
  /\ \E i, j \in TxIds :
       /\ i # j
       /\ req[1].order = j
       /\ store[i].shortId = j
       /\ store[i].status = "FAILED"
       /\ store[j].status = "PREPARED"

(* C36 (under SpecWide): a Provider C PerformTransaction that is answered  *)
(* with an error (invalid-amount, transaction-exists,                      *)
(* transaction-cancelled, client-not-found or missing-params) has written  *)
(* nothing: every field of every stored transaction, the provider          *)
(* included, is as it was when the request arrived.                        *)
C36_PaynetPerformErrorFrame ==
  [][(/\ pc[1] \in {"pn_perform", "pn_perform_backfill"}
      /\ pc'[1] = "reply"
      /\ resp'[1].code \in {PAYNET_INVALID_AMOUNT, PAYNET_TRANSACTION_EXISTS,
                            PAYNET_TRANSACTION_CANCELLED, PAYNET_CLIENT_NOT_FOUND,
                            PAYNET_MISSING_PARAMS})
       => (store' = store /\ "write" \notin cbs'[1])]_vars

(* C37 (under SpecConfig): a createPayment call that ends by throwing for  *)
(* a missing provider configuration has left the store as it was: no step  *)
(* of the call that ends in that exception creates a transaction or        *)
(* changes a field of a stored one.                                        *)
C37_ConfigThrowFrame ==
  [][\A p \in run.procs :
       (/\ pc[p] \in {"cp_find", "cp_write"}
        /\ pc'[p] = "reply"
        /\ resp'[p].thrown = ConfigError(req[p].method).thrown)
         => store' = store]_vars

(* C38 (under Spec, invocations interleaved): once the stored status of a  *)
(* transaction is no longer PENDING, no step changes its stored amount or  *)
(* its stored provider.                                                    *)
C38_AmountProviderFrozen ==
  [][\A i \in TxIds :
       store[i].status \in {"PREPARED", "COMPLETED", "FAILED"}
         => /\ store'[i].amount = store[i].amount
            /\ store'[i].provider = store[i].provider]_vars

(* The same, for the steps of createPayment alone.                         *)
C38_CreatePaymentWriteFrozen ==
  [][\A p \in run.procs : \A i \in TxIds :
       (/\ pc[p] = "cp_write" /\ Steps(p)
        /\ store[i].status \in {"PREPARED", "COMPLETED", "FAILED"})
         => /\ store'[i].amount = store[i].amount
            /\ store'[i].provider = store[i].provider]_vars

\* The awaits of the query methods of Provider A and Provider C.
C39_QueryAwaits ==
  {"pm_checkperform", "pm_checkperform_fiscal", "pm_check", "pm_statement",
   "pn_check", "pn_statement", "pn_password"}

\* The requests that call a query method.
C39_IsQuery(r) ==
  \/ r.kind = "payme"
     /\ r.method \in {"CheckPerformTransaction", "CheckTransaction", "GetStatement"}
  \/ r.kind = "paynet"
     /\ r.method \in {"CheckTransaction", "GetStatement", "ChangePassword"}

\* Slot p takes a step of a query method: its arrival or one of its awaits.
C39_QueryStep(p) ==
  /\ Steps(p)
  /\ \/ pc[p] \in C39_QueryAwaits
     \/ pc[p] = "idle" /\ C39_IsQuery(req'[p])

(* C39 (under SpecQuery): no step of Provider A's CheckPerformTransaction, *)
(* CheckTransaction or GetStatement, nor of Provider C's CheckTransaction, *)
(* GetStatement or ChangePassword, changes a stored transaction or calls   *)
(* onPaymentCompleted or onPaymentCancelled, whatever the request.         *)
C39_QueriesWriteNothing ==
  [][\A p \in run.procs :
       C39_QueryStep(p)
         => /\ store' = store
            /\ completedOk' = completedOk
            /\ cancelledOk' = cancelledOk
            /\ (cbs'[p] \ cbs[p]) \subseteq {"threw"}]_vars

C39_Witness ==
  /\ pc[1] = "reply"
  /\ req[1].kind = "payme" /\ req[1].method = "CheckTransaction"
  /\ resp[1].code = 0
  /\ resp[1].state = 1
  /\ store[resp[1].tx].status = "PREPARED"
  /\ cbs[1] = {}
====
